---- MODULE Spec2Model ----
(***************************************************************************)
(* Model of just-stream's streaming pipeline.                              *)
(*                                                                         *)
(*   storage/memory.go  the in-memory piece cache (MemTorrent, memPiece)   *)
(*   stream/server.go   the HTTP bridge (Server.handleStream)              *)
(*   player/mpv.go      the player control channel (Launch, Wait, Kill),   *)
(*                      with player/ipc_unix.go and player/ipc_windows.go  *)
(*   tui/tui.go         the terminal UI and the playback command           *)
(*                                                                         *)
(* Go slices are 0-indexed, TLA+ sequences 1-indexed: data[off:] is        *)
(* SubSeq(data, off + 1, Len(data)).                                       *)
(***************************************************************************)
EXTENDS Integers, Sequences, FiniteSets, TLC

VARIABLES
    pieces,     \* MemTorrent.pieces: piece index -> the memPiece stored for it
    piecesNil,  \* MemTorrent.pieces == nil (after MemTorrent.Close)
    hnd,        \* the storage.PieceImpl the caller got from its last Piece call
    det,        \* the memPiece behind hnd once the map no longer holds it
    ret,        \* the last cache operation, its arguments and what it returned
    panicked,   \* the process died of a Go runtime panic
    \* the cache under concurrent callers (the transfer engine's goroutines)
    mtMu,       \* MemTorrent.mu: the goroutine that holds it, or 0
    mpMu,       \* memPiece.mu per piece index: [w: the writer or 0, r: the readers]
    th,         \* per goroutine: its position and the locals of its current call
    created,    \* per piece index: how many memPiece objects were created for it
    stable,     \* per piece index: the buffer as the last completed call left it
    \* the HTTP bridge
    file,       \* Server.file: the published file, or NoFile (nil)
    published,  \* SetFile has been called
    reqs,       \* per connection: the request in flight and how far its handler is
    readers,    \* the torrent.Reader objects the handlers created
    \* the HTTP bridge that publishes a file set (called by tui.go)
    fileSet,    \* the published set: a sequence of files, empty before SetFiles
    sreqs,      \* per connection: the request for /stream/<index> in flight
    \* the player control channel
    ses,        \* per session: the MPV struct, its process, its calls and goroutines
    sock,       \* the session whose player created the IPC endpoint (ipcPath()), or 0
    windows,    \* the build: named pipe (TRUE) or unix socket (FALSE)
    crashed,    \* the application died of a Go runtime panic in a goroutine
    \* the terminal UI
    ui,         \* the bubbletea Model: screen, prevScreen, currentFile, streamAll
    shmpv,      \* shared.mpv: the session stored by cmdStartPlayback, or 0 (nil)
    gor,        \* per session: the position of the goroutine running cmdStartPlayback
    ops,        \* the eviction and priority calls made by the last call of Update
    layout,     \* per file: its piece range [first, end) in the torrent
    prio,       \* the fetch priorities as last issued: per file, and the pieces set to Now
    snd,        \* MPV.mu, MPV.reqID and the callers inside sendCommand
    \* the locks of a playback session
    lk,         \* shared.mu, MPV.mu, MPV.posMu: their holders and each thread's position
    \* the screens before the file list
    fetch,      \* cmdFetchMetadata: its position and the message it returned
    \* the terminal UI that starts one player per episode
    epi         \* its Model, the goroutine of cmdPlayFile and the player

cacheVars == <<pieces, piecesNil, hnd, det, ret, panicked>>

concVars == <<mtMu, mpMu, th, created, stable>>

bridgeVars == <<file, published, reqs, readers>>

setVars == <<fileSet, sreqs>>

playerVars == <<ses, sock, windows, crashed>>

tuiVars == <<ui, shmpv, gor, ops, layout, prio>>

sendVars == <<snd>>

lockVars == <<lk>>

fetchVars == <<fetch>>

episodeVars == <<epi>>

\* What the calls of a single caller leave alone.
notCache == <<concVars, bridgeVars, setVars, playerVars, tuiVars, sendVars, lockVars, fetchVars, episodeVars>>

\* What the steps of the concurrent callers leave alone (they share `pieces`).
notConc == <<piecesNil, hnd, det, ret, panicked, bridgeVars, setVars, playerVars, tuiVars, sendVars, lockVars, fetchVars, episodeVars>>

\* What the single-file bridge leaves alone.
notBridge == <<cacheVars, concVars, setVars, playerVars, tuiVars, sendVars, lockVars, fetchVars, episodeVars>>

\* What the file-set bridge leaves alone.
notSet == <<cacheVars, concVars, bridgeVars, playerVars, tuiVars, sendVars, lockVars, fetchVars, episodeVars>>

\* What the player control channel leaves alone.
notPlayer == <<cacheVars, concVars, bridgeVars, setVars, tuiVars, sendVars, lockVars, fetchVars, episodeVars>>

\* What the terminal UI leaves alone, the player and the file set apart.
notTui == <<concVars, bridgeVars, sreqs, layout, sendVars, lockVars, fetchVars, episodeVars>>

vars == <<pieces, piecesNil, hnd, det, ret, panicked, mtMu, mpMu, th, created, stable,
          file, published, reqs, readers, fileSet, sreqs, ses, sock, windows, crashed,
          ui, shmpv, gor, ops, layout, prio, snd, lk, fetch, epi>>

(***************************************************************************)
(* Bounds                                                                  *)
(***************************************************************************)
NumPieces == 3      \* info.NumPieces(): piece indices 0 .. NumPieces-1
PieceLen  == 2      \* p.Length(): the declared length of a piece
MaxOff    == 3      \* offsets 0 .. MaxOff are passed to ReadAt / WriteAt
MaxLen    == 2      \* buffers of 0 .. MaxLen bytes are passed to ReadAt / WriteAt
NumThreads == 2     \* goroutines that use the cache at the same time
NumReqs   == 2      \* HTTP connections served at the same time
MaxSet    == 3      \* a published file set holds 1 .. MaxSet files
MaxLaunch == 2      \* playback sessions started in one run
MaxUrls   == 3      \* a playlist holds 1 .. MaxUrls items
MaxEvq    == 1      \* position events the player is ahead of the channel by

\* Launch polls the endpoint 50 times.
DialAttempts == 50

PieceIdx == 0 .. (NumPieces - 1)
\* FreePieces is also called with an empty range (start >= end).
RangeArgs == 0 .. NumPieces
Offsets == 0 .. MaxOff
BufLens == 0 .. MaxLen

Min(a, b) == IF a < b THEN a ELSE b
Max(a, b) == IF a > b THEN a ELSE b

(***************************************************************************)
(* Go built-ins                                                            *)
(***************************************************************************)
\* make([]byte, n): n zero bytes.
MakeBytes(n) == [i \in 1 .. n |-> 0]

\* copy(dst, src): the number of bytes copied, min(len(dst), len(src)).
CopyN(dst, src) == Min(Len(dst), Len(src))

\* copy(dst, src): dst afterwards.
Copy(dst, src) ==
    [i \in 1 .. Len(dst) |-> IF i <= CopyN(dst, src) THEN src[i] ELSE dst[i]]

\* The payload of a write of n bytes: the bytes 1, 2, ..., n (non-zero and distinct,
\* so a byte that lands at a wrong place, or is lost, shows).
Payload(n) == [i \in 1 .. n |-> i]

\* A caller's read buffer of k bytes, filled with a value no piece ever holds.
ReadBuf(k) == [i \in 1 .. k |-> 255]

(***************************************************************************)
(* memPiece                                                                *)
(***************************************************************************)
\* ReadAt that copies from the start of the buffer: copy(p, mp.data).
ReadAtFromStart(data, p, off) ==
    IF off >= Len(data)
    THEN [n |-> 0, err |-> "EOF", p |-> p, fault |-> FALSE]
    ELSE [n |-> CopyN(p, data),
          err |-> IF CopyN(p, data) < Len(p) THEN "EOF" ELSE "nil",
          p |-> Copy(p, data),
          fault |-> FALSE]

\* memPiece.ReadAt(p, off) on a buffer `data`: [n, err, p, fault].
ReadAtOp(data, p, off) ==
    IF off >= Len(data)
    THEN [n |-> 0, err |-> "EOF", p |-> p, fault |-> FALSE]
    ELSE IF off < 0
    THEN [n |-> 0, err |-> "nil", p |-> p, fault |-> TRUE]   \* mp.data[off:] panics
    ELSE LET src == SubSeq(data, off + 1, Len(data))
             n   == CopyN(p, src)
         IN  [n |-> n,
              err |-> IF n < Len(p) THEN "EOF" ELSE "nil",
              p |-> Copy(p, src),
              fault |-> FALSE]

\* Growing without copy(grown, mp.data).
GrowWithoutCopy(data, end) ==
    IF end > Len(data) THEN MakeBytes(end) ELSE data

\* The buffer after `if end > len(mp.data) { grown := make([]byte, end);
\* copy(grown, mp.data); mp.data = grown }`.
Grow(data, end) ==
    IF end > Len(data) THEN Copy(MakeBytes(end), data) ELSE data

\* memPiece.WriteAt(p, off) on a buffer `data`: [data, n, fault].
WriteAtOp(data, p, off) ==
    IF off < 0
    THEN [data |-> data, n |-> 0, fault |-> TRUE]            \* mp.data[off:] panics
    ELSE LET grown == Grow(data, off + Len(p))
             tail  == SubSeq(grown, off + 1, Len(grown))
         IN  [data |-> SubSeq(grown, 1, off) \o Copy(tail, p),
              n |-> CopyN(tail, p),
              fault |-> FALSE]

\* A memPiece created without its buffer: &memPiece{len: length}.
NewPieceWithoutBuffer(length) ==
    [data |-> <<>>, complete |-> FALSE, written |-> FALSE]

\* &memPiece{data: make([]byte, length), len: length}; `written` records whether
\* WriteAt was ever called on the object.
NewPiece(length) ==
    [data |-> MakeBytes(length), complete |-> FALSE, written |-> FALSE]

\* No object.
NoObj == [data |-> <<>>, complete |-> FALSE, written |-> FALSE, none |-> TRUE]

\* Handles: none, the entry the map holds for idx, or an entry the map dropped
\* (FreePieces, Close) while the caller kept it; its object is then `det`.
NoHandle == [kind |-> "none", idx |-> 0]
Entry(idx) == [kind |-> "entry", idx |-> idx]
Detached(idx) == [kind |-> "detached", idx |-> idx]

\* The memPiece a handle refers to.
Obj(h) == IF h.kind = "entry" THEN pieces[h.idx] ELSE det

NoRet == [op |-> "none", x |-> 0, y |-> 0, n |-> 0, err |-> "nil", p |-> <<>>, ok |-> TRUE]

(***************************************************************************)
(* MemTorrent                                                              *)
(***************************************************************************)
\* FreePieces whose loop stops one index early: i < end-1.
FreePiecesStopsEarly(m, start, end) ==
    [i \in DOMAIN m \ (start .. (end - 2)) |-> m[i]]

\* FreePieces whose loop runs one index too far: i <= end.
FreePiecesInclusive(m, start, end) ==
    [i \in DOMAIN m \ (start .. end) |-> m[i]]

\* The map after FreePieces(start, end): for i := start; i < end; i++ { delete }.
\* delete on a nil map is a no-op.
FreePiecesOp(m, start, end) ==
    [i \in DOMAIN m \ (start .. (end - 1)) |-> m[i]]

\* The caller's handle and its object after the map changed from m to m2.
HandleAfter(h, m2) ==
    IF h.kind = "entry" /\ h.idx \notin DOMAIN m2 THEN Detached(h.idx) ELSE h

DetAfter(h, m, m2) ==
    IF h.kind = "entry" /\ h.idx \notin DOMAIN m2 THEN m[h.idx] ELSE det

CacheInit ==
    /\ pieces = [i \in {} |-> NoObj]
    /\ piecesNil = FALSE
    /\ hnd = NoHandle
    /\ det = NoObj
    /\ ret = NoRet
    /\ panicked = FALSE

\* MemTorrent.Piece(p) with p.Index() = idx, p.Length() = PieceLen.
Piece(idx) ==
    /\ ~panicked
    /\ UNCHANGED notCache
    /\ IF idx \in DOMAIN pieces
       THEN \* the entry exists: return it
            /\ hnd' = Entry(idx)
            /\ det' = NoObj
            /\ ret' = [NoRet EXCEPT !.op = "Piece", !.x = idx, !.n = 0]
            /\ UNCHANGED <<pieces, piecesNil, panicked>>
       ELSE IF piecesNil
       THEN \* mt.pieces[idx] = mp on a nil map: panic
            /\ panicked' = TRUE
            /\ ret' = [NoRet EXCEPT !.op = "Piece", !.x = idx, !.ok = FALSE]
            /\ UNCHANGED <<pieces, piecesNil, hnd, det>>
       ELSE /\ pieces' = [i \in DOMAIN pieces \cup {idx} |->
                             IF i = idx THEN NewPiece(PieceLen) ELSE pieces[i]]
            /\ hnd' = Entry(idx)
            /\ det' = NoObj
            /\ ret' = [NoRet EXCEPT !.op = "Piece", !.x = idx, !.n = 1]
            /\ UNCHANGED <<piecesNil, panicked>>

\* MemTorrent.FreePieces(start, end)
FreePieces(start, end) ==
    /\ ~panicked
    /\ UNCHANGED notCache
    /\ pieces' = FreePiecesOp(pieces, start, end)
    /\ hnd' = HandleAfter(hnd, pieces')
    /\ det' = DetAfter(hnd, pieces, pieces')
    /\ ret' = [NoRet EXCEPT !.op = "FreePieces", !.x = start, !.y = end,
                            !.n = Cardinality(DOMAIN pieces \ DOMAIN pieces')]
    /\ UNCHANGED <<piecesNil, panicked>>

\* MemTorrent.Close(): mt.pieces = nil
Close ==
    /\ ~panicked
    /\ UNCHANGED notCache
    /\ pieces' = [i \in {} |-> NoObj]
    /\ piecesNil' = TRUE
    /\ hnd' = HandleAfter(hnd, pieces')
    /\ det' = DetAfter(hnd, pieces, pieces')
    /\ ret' = [NoRet EXCEPT !.op = "Close"]
    /\ UNCHANGED panicked

\* The cache after the object behind handle h became o.
StoreObj(h, o) ==
    IF h.kind = "entry"
    THEN /\ pieces' = [pieces EXCEPT ![h.idx] = o]
         /\ det' = det
    ELSE /\ det' = o
         /\ pieces' = pieces

\* memPiece.ReadAt(p, off) through the caller's handle, len(p) = k.
ReadAt(k, off) ==
    /\ ~panicked
    /\ UNCHANGED notCache
    /\ hnd # NoHandle
    /\ LET r == ReadAtOp(Obj(hnd).data, ReadBuf(k), off)
       IN  /\ ret' = [NoRet EXCEPT !.op = "ReadAt", !.x = off, !.y = k, !.n = r.n,
                                   !.err = r.err, !.p = r.p, !.ok = ~r.fault]
           /\ panicked' = r.fault
    /\ UNCHANGED <<pieces, piecesNil, hnd, det>>

\* memPiece.WriteAt(p, off) through the caller's handle, len(p) = k.
WriteAt(k, off) ==
    /\ ~panicked
    /\ UNCHANGED notCache
    /\ hnd # NoHandle
    /\ LET p == Payload(k)
           r == WriteAtOp(Obj(hnd).data, p, off)
       IN  /\ StoreObj(hnd, [Obj(hnd) EXCEPT !.data = r.data, !.written = TRUE])
           /\ ret' = [NoRet EXCEPT !.op = "WriteAt", !.x = off, !.y = k, !.n = r.n,
                                   !.p = p, !.ok = ~r.fault]
           /\ panicked' = r.fault
    /\ UNCHANGED <<piecesNil, hnd>>

\* memPiece.MarkComplete()
MarkComplete ==
    /\ ~panicked
    /\ UNCHANGED notCache
    /\ hnd # NoHandle
    /\ StoreObj(hnd, [Obj(hnd) EXCEPT !.complete = TRUE])
    /\ ret' = [NoRet EXCEPT !.op = "MarkComplete"]
    /\ UNCHANGED <<piecesNil, hnd, panicked>>

\* memPiece.MarkNotComplete()
MarkNotComplete ==
    /\ ~panicked
    /\ UNCHANGED notCache
    /\ hnd # NoHandle
    /\ StoreObj(hnd, [Obj(hnd) EXCEPT !.complete = FALSE])
    /\ ret' = [NoRet EXCEPT !.op = "MarkNotComplete"]
    /\ UNCHANGED <<piecesNil, hnd, panicked>>

\* memPiece.Completion(): Complete in n (1 = true), Ok always true.
Completion ==
    /\ ~panicked
    /\ UNCHANGED notCache
    /\ hnd # NoHandle
    /\ ret' = [NoRet EXCEPT !.op = "Completion",
                            !.n = IF Obj(hnd).complete THEN 1 ELSE 0]
    /\ UNCHANGED <<pieces, piecesNil, hnd, det, panicked>>

(***************************************************************************)
(* The cache under concurrent callers. Every call is split at its lock and *)
(* unlock and at each store it makes in between, so that calls interleave  *)
(* wherever the locks let them.                                            *)
(***************************************************************************)
Threads == 1 .. NumThreads

\* Concurrent callers use the first and the last piece; they write MaxLen bytes
\* inside the piece or right behind it, and read the whole buffer.
ConcPieces == {0, NumPieces - 1}
ConcOffsets == {0, PieceLen}
WholeBuf == PieceLen + MaxLen

\* torn: the last ReadAt of the goroutine returned something else than a read of
\* the buffer as the last completed call left it.
Idle == [pc |-> "idle", idx |-> 0, gen |-> 0, off |-> 0, i |-> 0, torn |-> FALSE]

NoLock == [w |-> 0, r |-> {}]

ConcInit ==
    /\ mtMu = 0
    /\ mpMu = [i \in ConcPieces |-> NoLock]
    /\ th = [t \in Threads |-> Idle]
    /\ created = [i \in ConcPieces |-> 0]
    /\ stable = [i \in ConcPieces |-> <<>>]

\* MemTorrent.Piece entered without waiting for mt.mu.
PieceWithoutLock(t, idx) ==
    /\ UNCHANGED notConc
    /\ th[t].pc \in {"idle", "have"}
    /\ mtMu' = t
    /\ th' = [th EXCEPT ![t] = [Idle EXCEPT !.pc = "lookup", !.idx = idx]]
    /\ UNCHANGED <<pieces, mpMu, created, stable>>

\* mt.mu.Lock() in MemTorrent.Piece
PieceLock(t, idx) ==
    /\ UNCHANGED notConc
    /\ th[t].pc \in {"idle", "have"}
    /\ mtMu = 0
    /\ mtMu' = t
    /\ th' = [th EXCEPT ![t] = [Idle EXCEPT !.pc = "lookup", !.idx = idx]]
    /\ UNCHANGED <<pieces, mpMu, created, stable>>

\* if mp, ok := mt.pieces[idx]; ok { return mp }   (the deferred Unlock runs)
PieceLookup(t) ==
    /\ UNCHANGED notConc
    /\ th[t].pc = "lookup"
    /\ IF th[t].idx \in DOMAIN pieces
       THEN /\ th' = [th EXCEPT ![t].pc = "have", ![t].gen = created[th[t].idx]]
            /\ mtMu' = 0
       ELSE /\ th' = [th EXCEPT ![t].pc = "create"]
            /\ mtMu' = mtMu
    /\ UNCHANGED <<pieces, mpMu, created, stable>>

\* mp := &memPiece{...}; mt.pieces[idx] = mp; return mp   (the deferred Unlock runs)
PieceCreate(t) ==
    /\ UNCHANGED notConc
    /\ th[t].pc = "create"
    /\ LET idx == th[t].idx
       IN  /\ pieces' = [i \in DOMAIN pieces \cup {idx} |->
                            IF i = idx THEN NewPiece(PieceLen) ELSE pieces[i]]
           /\ created' = [created EXCEPT ![idx] = @ + 1]
           /\ stable' = [stable EXCEPT ![idx] = NewPiece(PieceLen).data]
           /\ th' = [th EXCEPT ![t].pc = "have", ![t].gen = created[idx] + 1]
    /\ mtMu' = 0
    /\ UNCHANGED mpMu

\* memPiece.ReadAt entered without waiting for a writer to finish.
ReadWithoutLock(t) ==
    /\ UNCHANGED notConc
    /\ th[t].pc = "have"
    /\ mpMu' = [mpMu EXCEPT ![th[t].idx].r = @ \cup {t}]
    /\ th' = [th EXCEPT ![t].pc = "rlocked"]
    /\ UNCHANGED <<pieces, mtMu, created, stable>>

\* mp.mu.RLock() in memPiece.ReadAt
ReadLock(t) ==
    /\ UNCHANGED notConc
    /\ th[t].pc = "have"
    /\ mpMu[th[t].idx].w = 0
    /\ mpMu' = [mpMu EXCEPT ![th[t].idx].r = @ \cup {t}]
    /\ th' = [th EXCEPT ![t].pc = "rlocked"]
    /\ UNCHANGED <<pieces, mtMu, created, stable>>

\* The body of memPiece.ReadAt and the deferred RUnlock.
ReadCopy(t) ==
    /\ UNCHANGED notConc
    /\ th[t].pc = "rlocked"
    /\ LET idx == th[t].idx
           r   == ReadAtOp(pieces[idx].data, ReadBuf(WholeBuf), 0)
           e   == ReadAtOp(stable[idx], ReadBuf(WholeBuf), 0)
       IN  /\ th' = [th EXCEPT ![t].pc = "readDone", ![t].torn = (r # e)]
           /\ mpMu' = [mpMu EXCEPT ![idx].r = @ \ {t}]
    /\ UNCHANGED <<pieces, mtMu, created, stable>>

\* ReadAt has returned to its caller.
ReadReturn(t) ==
    /\ UNCHANGED notConc
    /\ th[t].pc = "readDone"
    /\ th' = [th EXCEPT ![t].pc = "have", ![t].torn = FALSE]
    /\ UNCHANGED <<pieces, mtMu, mpMu, created, stable>>

\* mp.mu.Lock() in memPiece.WriteAt
WriteLock(t, off) ==
    /\ UNCHANGED notConc
    /\ th[t].pc = "have"
    /\ mpMu[th[t].idx] = NoLock
    /\ mpMu' = [mpMu EXCEPT ![th[t].idx].w = t]
    /\ th' = [th EXCEPT ![t].pc = "grow", ![t].off = off]
    /\ UNCHANGED <<pieces, mtMu, created, stable>>

\* if end > len(mp.data) { grown := ...; copy(grown, mp.data); mp.data = grown }
WriteGrow(t) ==
    /\ UNCHANGED notConc
    /\ th[t].pc = "grow"
    /\ LET idx == th[t].idx
       IN  pieces' = [pieces EXCEPT ![idx].data = Grow(@, th[t].off + MaxLen),
                                    ![idx].written = TRUE]
    /\ th' = [th EXCEPT ![t].pc = "copy", ![t].i = 0]
    /\ UNCHANGED <<mtMu, mpMu, created, stable>>

\* copy(mp.data[off:], p), one byte at a time; after the last byte the deferred
\* Unlock runs.
WriteCopy(t) ==
    /\ UNCHANGED notConc
    /\ th[t].pc = "copy"
    /\ LET idx  == th[t].idx
           i    == th[t].i
           data == [pieces[idx].data EXCEPT ![th[t].off + i + 1] = Payload(MaxLen)[i + 1]]
       IN  /\ pieces' = [pieces EXCEPT ![idx].data = data]
           /\ IF i + 1 = MaxLen
              THEN /\ th' = [th EXCEPT ![t].pc = "have", ![t].i = 0, ![t].off = 0]
                   /\ mpMu' = [mpMu EXCEPT ![idx].w = 0]
                   /\ stable' = [stable EXCEPT ![idx] = data]
              ELSE /\ th' = [th EXCEPT ![t].i = i + 1]
                   /\ UNCHANGED <<mpMu, stable>>
    /\ UNCHANGED <<mtMu, created>>

ConcNext ==
    \/ \E t \in Threads, idx \in ConcPieces : PieceLock(t, idx)
    \/ \E t \in Threads : PieceLookup(t)
    \/ \E t \in Threads : PieceCreate(t)
    \/ \E t \in Threads : ReadLock(t)
    \/ \E t \in Threads : ReadCopy(t)
    \/ \E t \in Threads : ReadReturn(t)
    \/ \E t \in Threads, off \in ConcOffsets : WriteLock(t, off)
    \/ \E t \in Threads : WriteGrow(t)
    \/ \E t \in Threads : WriteCopy(t)

(***************************************************************************)
(* The HTTP bridge: stream/server.go                                       *)
(***************************************************************************)
MiB == 1024 * 1024

\* f.Length() of the files a torrent may hold: empty, below, at and just above the
\* 8 MiB floor, lengths whose twentieth is below, at and above 8 MiB, with and
\* without a remainder, and two files of a few bytes.
FileLengths ==
    <<0, 4 * MiB, 8 * MiB, 8 * MiB + 1, 100 * MiB, 160 * MiB + 19, 400 * MiB,
      400 * MiB + 7, 100, 10>>

Files == 1 .. Len(FileLengths)
NoFile == 0
Length(f) == FileLengths[f]

\* The files the range requests are made on.
ServeFiles == {f \in Files : Length(f) \in 1 .. 100}

\* The files the requests without a Range header are made on.
BridgeFiles == Files \ ServeFiles

Conns == 1 .. NumReqs

\* Request paths: the stream endpoint, a path below it, and another path.
Paths == {"/stream", "/stream/0", "/favicon.ico"}

\* The Range header of a request: absent, "bytes=a-b", "bytes=a-", "bytes=-a",
\* or a value that is no byte range ("bytes=x-y").
NoRange == [kind |-> "none", a |-> 0, b |-> 0]
Closed(a, b) == [kind |-> "closed", a |-> a, b |-> b]
From(a) == [kind |-> "from", a |-> a, b |-> 0]
Suffix(a) == [kind |-> "suffix", a |-> a, b |-> 0]
BadRange == [kind |-> "bad", a |-> 0, b |-> 0]

ServeRanges ==
    {NoRange, Closed(10, 19), Closed(0, 0), Closed(5, 150), Closed(100, 150),
     Suffix(10), BadRange}

\* The Content-Range header of a response: absent, "bytes s-e/l", or "bytes */l".
NoCRange == [kind |-> "none", s |-> 0, e |-> 0, l |-> 0]
CRange(s, e, l) == [kind |-> "range", s |-> s, e |-> e, l |-> l]
CRangeUnsat(l) == [kind |-> "unsat", s |-> 0, e |-> 0, l |-> l]

NoReq == [pc |-> "idle", path |-> "", range |-> NoRange, f |-> NoFile, status |-> 0,
          readahead |-> 0, reader |-> FALSE, crange |-> NoCRange, size |-> 0,
          from |-> 0, sent |-> 0, srcs |-> {}, contig |-> TRUE]

NoReader == [open |-> FALSE, f |-> NoFile, off |-> 0, readahead |-> 0]

\* mux.HandleFunc("/stream", s.handleStream): a pattern without a trailing slash
\* matches that path alone; every other path gets the mux's 404.
Routed(path) == path = "/stream"

\* The readahead without the clamp to the file's length.
ReadaheadUnclamped(len) ==
    IF len \div 20 < 8 * 1024 * 1024 THEN 8 * 1024 * 1024 ELSE len \div 20

\* The readahead handleStream sets for a file of length len.
Readahead(len) ==
    LET r1 == len \div 20
        r2 == IF r1 < 8 * 1024 * 1024 THEN 8 * 1024 * 1024 ELSE r1
    IN  IF r2 > len THEN len ELSE r2

\* A handler that answers "nothing published" like a bad reference.
StreamStatusNotFound(f) == IF f = NoFile THEN 404 ELSE 200

\* The status handleStream answers with for the snapshot f of s.file.
\* http.ServeContent answers a request without a Range header with 200.
StreamStatus(f) == IF f = NoFile THEN 503 ELSE 200

\* handleStream creates a reader unless it has returned before f.NewReader().
MakesReader(f) == f # NoFile

\* A handler that reads s.file again instead of using its local f.
LocalRereads(c) == file

\* The handler's local f, set once from s.file under the read lock.
Local(c) == reqs[c].f

\* One reader object for the whole server instead of one per call.
ReaderShared(c) == 1

\* reader := f.NewReader(): every call of handleStream gets a reader of its own;
\* the reader of the call on connection c is named c.
ReaderOf(c) == c

\* A range length that leaves out the last byte.
RangeLengthExclusive(s, e) == e - s

\* The length of the byte range s..e, both ends included.
RangeLength(s, e) == e - s + 1

\* net/http parseRange for a header with one range, on content of `size` bytes.
ParseRange(rng, size) ==
    CASE rng.kind = "closed" ->
            IF rng.a >= size THEN [err |-> "nooverlap", start |-> 0, length |-> 0]
            ELSE IF rng.a > rng.b THEN [err |-> "invalid", start |-> 0, length |-> 0]
            ELSE [err |-> "", start |-> rng.a,
                  length |-> RangeLength(rng.a, Min(rng.b, size - 1))]
      [] rng.kind = "from" ->
            IF rng.a >= size THEN [err |-> "nooverlap", start |-> 0, length |-> 0]
            ELSE [err |-> "", start |-> rng.a, length |-> size - rng.a]
      [] rng.kind = "suffix" ->
            [err |-> "", start |-> size - Min(rng.a, size), length |-> Min(rng.a, size)]
      [] OTHER -> [err |-> "invalid", start |-> 0, length |-> 0]

\* http.ServeContent up to w.WriteHeader: the status, the Content-Range header, and
\* the part of the content io.CopyN will send (start, size).
ServeContent(size, rng) ==
    IF rng.kind = "none"
    THEN [status |-> 200, crange |-> NoCRange, start |-> 0, size |-> size]
    ELSE LET ra == ParseRange(rng, size)
         IN  CASE ra.err = "nooverlap" /\ size = 0 ->
                     [status |-> 200, crange |-> NoCRange, start |-> 0, size |-> size]
               [] ra.err = "nooverlap" /\ size # 0 ->
                     [status |-> 416, crange |-> CRangeUnsat(size), start |-> 0,
                      size |-> 0]
               [] ra.err = "invalid" ->
                     [status |-> 416, crange |-> NoCRange, start |-> 0, size |-> 0]
               [] OTHER ->
                     [status |-> 206,
                      crange |-> CRange(ra.start, ra.start + ra.length - 1, size),
                      start |-> ra.start, size |-> ra.length]

\* io.CopyN copies through a buffer of 32 KiB.
CopyBuf == 32 * 1024

\* What the Reads of the reader return when `rem` bytes are left to send and
\* `sent` were sent.  A body that fits the copy buffer arrives in one Read or in
\* two (the first Read stops half way); the Reads of a longer body are taken
\* together.
ReadSizes(sent, rem) ==
    IF sent = 0 /\ rem >= 2 /\ rem <= CopyBuf THEN {rem \div 2, rem} ELSE {rem}

BridgeInit ==
    /\ file = NoFile
    /\ published = FALSE
    /\ reqs = [c \in Conns |-> NoReq]
    /\ readers = [c \in Conns |-> NoReader]

\* Server.SetFile(f); its callers pass a file of the torrent, never nil.
SetFile(f) ==
    /\ file' = f
    /\ published' = TRUE
    /\ UNCHANGED <<reqs, readers, notBridge>>

\* A request arrives on connection c and the mux routes it.
Request(c, path, rng) ==
    /\ reqs[c].pc \in {"idle", "done"}
    /\ reqs' = [reqs EXCEPT ![c] =
                  IF Routed(path)
                  THEN [NoReq EXCEPT !.pc = "handler", !.path = path, !.range = rng]
                  ELSE [NoReq EXCEPT !.pc = "done", !.path = path, !.range = rng,
                                     !.status = 404]]
    /\ UNCHANGED <<file, published, readers, notBridge>>

\* handleStream: s.mu.RLock(); f := s.file; s.mu.RUnlock()
HandleSnapshot(c) ==
    /\ reqs[c].pc = "handler"
    /\ reqs' = [reqs EXCEPT ![c].pc = "snapshot", ![c].f = file]
    /\ UNCHANGED <<file, published, readers, notBridge>>

\* handleStream from `if f == nil` into http.ServeContent, up to the response
\* header: the reader is created and set up, the range is parsed, the reader is
\* moved to the start of the range.
HandleServe(c) ==
    /\ reqs[c].pc = "snapshot"
    /\ LET f == Local(c)
           sc == ServeContent(Length(f), reqs[c].range)
       IN  IF MakesReader(f)
           THEN /\ reqs' = [reqs EXCEPT
                              ![c].pc = "serving",
                              ![c].status = IF StreamStatus(f) = 200 THEN sc.status
                                            ELSE StreamStatus(f),
                              ![c].reader = TRUE,
                              ![c].readahead = Readahead(Length(f)),
                              ![c].crange = sc.crange,
                              ![c].size = sc.size,
                              ![c].from = sc.start]
                /\ readers' = [readers EXCEPT ![ReaderOf(c)] =
                                 [open |-> TRUE, f |-> f, off |-> sc.start,
                                  readahead |-> Readahead(Length(f))]]
           ELSE /\ reqs' = [reqs EXCEPT ![c].pc = "done",
                                        ![c].status = StreamStatus(f)]
                /\ UNCHANGED readers
    /\ UNCHANGED <<file, published, notBridge>>

\* io.CopyN inside http.ServeContent: one Read of the reader, written to the
\* response body.
HandleCopy(c, n) ==
    /\ reqs[c].pc = "serving"
    /\ reqs[c].sent < reqs[c].size
    /\ n \in ReadSizes(reqs[c].sent, reqs[c].size - reqs[c].sent)
    /\ LET rd == readers[ReaderOf(c)]
       IN  /\ reqs' = [reqs EXCEPT
                         ![c].sent = @ + n,
                         ![c].srcs = @ \cup {rd.f},
                         ![c].contig = @ /\ rd.open
                                         /\ rd.off = reqs[c].from + reqs[c].sent]
           /\ readers' = [readers EXCEPT ![ReaderOf(c)].off = @ + n]
    /\ UNCHANGED <<file, published, notBridge>>

\* http.ServeContent returns; the deferred reader.Close() runs.
HandleReturn(c) ==
    /\ reqs[c].pc = "serving"
    /\ reqs[c].sent = reqs[c].size
    /\ reqs' = [reqs EXCEPT ![c].pc = "done", ![c].reader = FALSE]
    /\ readers' = [readers EXCEPT ![ReaderOf(c)] = NoReader]
    /\ UNCHANGED <<file, published, notBridge>>

\* Requests without a Range header, on every path, for files of every length.
BridgeNext ==
    \/ \E f \in BridgeFiles : SetFile(f)
    \/ \E c \in Conns, path \in Paths : Request(c, path, NoRange)
    \/ \E c \in Conns : HandleSnapshot(c)
    \/ \E c \in Conns : HandleServe(c)
    \/ \E c \in Conns :
          \E n \in ReadSizes(reqs[c].sent, reqs[c].size - reqs[c].sent) : HandleCopy(c, n)
    \/ \E c \in Conns : HandleReturn(c)

\* Requests for the stream endpoint with and without a Range header.
ServeNext ==
    \/ \E f \in ServeFiles : SetFile(f)
    \/ \E c \in Conns, rng \in ServeRanges : Request(c, "/stream", rng)
    \/ \E c \in Conns : HandleSnapshot(c)
    \/ \E c \in Conns : HandleServe(c)
    \/ \E c \in Conns :
          \E n \in ReadSizes(reqs[c].sent, reqs[c].size - reqs[c].sent) : HandleCopy(c, n)
    \/ \E c \in Conns : HandleReturn(c)

(***************************************************************************)
(* The HTTP bridge that publishes a file set.  tui.go calls                *)
(* sh.server.SetFiles(files) and sh.server.FileURL(i); the handler behind  *)
(* /stream/<index> is described in the design document, sections 4.2, 6.   *)
(***************************************************************************)
\* The index tokens of the request paths /stream/<token>, as their characters.
Tokens == {<<"0">>, <<"2">>, <<"5">>, <<"x">>, <<"1", "a">>}

Digits == {"0", "1", "2", "3", "4", "5", "6", "7", "8", "9"}

DigitValue(ch) ==
    CASE ch = "0" -> 0 [] ch = "1" -> 1 [] ch = "2" -> 2 [] ch = "3" -> 3
      [] ch = "4" -> 4 [] ch = "5" -> 5 [] ch = "6" -> 6 [] ch = "7" -> 7
      [] ch = "8" -> 8 [] OTHER -> 9

\* A well-formed index is a non-empty string of decimal digits.
WellFormed(tok) == Len(tok) > 0 /\ \A k \in 1 .. Len(tok) : tok[k] \in Digits

RECURSIVE IndexValue(_)
IndexValue(tok) ==
    IF tok = <<>> THEN 0
    ELSE 10 * IndexValue(SubSeq(tok, 1, Len(tok) - 1)) + DigitValue(tok[Len(tok)])

\* The file sets a selection publishes: tui.go passes m.files, the files of the
\* torrent in order; a torrent holds 1 .. MaxSet files, here named 1, 2, ...
FileSets == {[k \in 1 .. n |-> k] : n \in 1 .. MaxSet}

\* `set` is the handler's snapshot of the published set.
NoSReq == [pc |-> "idle", token |-> <<>>, status |-> 0, entry |-> NoFile, set |-> <<>>]

\* A handler that takes every well-formed index as in bounds.
ResolveUnchecked(set, tok) ==
    CASE ~WellFormed(tok) -> [status |-> 400, entry |-> NoFile]
      [] Len(set) = 0 -> [status |-> 503, entry |-> NoFile]
      [] OTHER -> [status |-> 200, entry |-> set[Min(IndexValue(tok), Len(set) - 1) + 1]]

\* The handler's answer for index token tok against the snapshot `set` of the
\* published set: 400 malformed, 503 nothing published, 404 out of bounds, or the
\* entry at that position.
Resolve(set, tok) ==
    CASE ~WellFormed(tok) -> [status |-> 400, entry |-> NoFile]
      [] WellFormed(tok) /\ Len(set) = 0 -> [status |-> 503, entry |-> NoFile]
      [] WellFormed(tok) /\ Len(set) > 0 /\ IndexValue(tok) >= Len(set) ->
            [status |-> 404, entry |-> NoFile]
      [] OTHER -> [status |-> 200, entry |-> set[IndexValue(tok) + 1]]

SetInit ==
    /\ fileSet = <<>>
    /\ sreqs = [c \in Conns |-> NoSReq]

\* publish(file_set): replaces the whole set.
SetFiles(fs) ==
    /\ fileSet' = fs
    /\ UNCHANGED <<sreqs, notSet>>

\* A request for /stream/<tok> arrives on connection c.
StreamRequest(c, tok) ==
    /\ sreqs[c].pc \in {"idle", "done"}
    /\ sreqs' = [sreqs EXCEPT ![c] = [NoSReq EXCEPT !.pc = "handler", !.token = tok]]
    /\ UNCHANGED <<fileSet, notSet>>

\* The handler takes its snapshot of the set under the read lock and resolves
\* the index against it.
StreamResolve(c) ==
    /\ sreqs[c].pc = "handler"
    /\ LET r == Resolve(fileSet, sreqs[c].token)
       IN  sreqs' = [sreqs EXCEPT ![c].pc = IF r.status = 200 THEN "serving" ELSE "done",
                                  ![c].status = r.status,
                                  ![c].entry = r.entry,
                                  ![c].set = fileSet]
    /\ UNCHANGED <<fileSet, notSet>>

\* The response has been streamed.
StreamReturn(c) ==
    /\ sreqs[c].pc = "serving"
    /\ sreqs' = [sreqs EXCEPT ![c].pc = "done"]
    /\ UNCHANGED <<fileSet, notSet>>

SetNext ==
    \/ \E fs \in FileSets : SetFiles(fs)
    \/ \E c \in Conns, tok \in Tokens : StreamRequest(c, tok)
    \/ \E c \in Conns : StreamResolve(c)
    \/ \E c \in Conns : StreamReturn(c)

(***************************************************************************)
(* The player control channel: player/mpv.go, player/ipc_unix.go,          *)
(* player/ipc_windows.go                                                   *)
(***************************************************************************)
Sess == 1 .. MaxLaunch

\* opts.URLs holds 1 .. MaxUrls items, named by their position 0, 1, ...
UrlCounts == 1 .. MaxUrls

\* The JSON IPC commands the channel sends.
Cmd(verb, arg) == [verb |-> verb, arg |-> arg]

RECURSIVE LoadCmds(_, _)
\* appendPlaylist's loop: loadfile URLs[i] append, then playlist/i/title.
LoadCmds(i, n) ==
    IF i >= n THEN <<>>
    ELSE <<Cmd("loadfile", i), Cmd("title", i)>> \o LoadCmds(i + 1, n)

\* A loop that appends every item but the start item.
AppendCmdsSkippingStart(n, start) ==
    SelectSeq(LoadCmds(0, n), LAMBDA c : c.arg # start)
        \o <<Cmd("setpos", start), Cmd("observe", 0)>>

\* The commands of appendPlaylist, in order, for n URLs and opts.StartIndex.
AppendCmds(n, start) ==
    LoadCmds(1, n)
        \o <<Cmd("title", 0)>>
        \o (IF start > 0 /\ start < n THEN <<Cmd("setpos", start)>> ELSE <<>>)
        \o <<Cmd("observe", 0)>>

\* One session: the MPV struct m, the process m.cmd, the player behind the
\* endpoint, and the positions of the calls and goroutines on m.
NoSession ==
    [proc |-> "none",       \* m.cmd's process: none, running, exited
     ipc |-> FALSE,         \* the player listens on the endpoint
     playlist |-> <<>>,     \* the player's playlist
     pos |-> -1,            \* the player's playlist-pos
     inq |-> <<>>,          \* commands written to the connection, not yet processed
     obs |-> 0,             \* observe_property commands the player has processed
     evq |-> <<>>,          \* playlist-pos events written by the player, not yet read
     conn |-> FALSE,        \* m.conn != nil
     playlistPos |-> -1,    \* m.playlistPos
     sent |-> <<>>,         \* the commands written to m.conn so far
     n |-> 0,               \* len(opts.URLs)
     start |-> 0,           \* opts.StartIndex
     base |-> 0,            \* the file behind opts.URLs[0]
     urlsrv |-> 0,          \* the bridge opts.URLs point to (0: none built yet)
     lost |-> FALSE,        \* the player closed its end of the connection
     lpc |-> "idle",        \* Launch: idle, start, dial, returned
     li |-> 0,              \* Launch: dial attempts made
     lret |-> "none",       \* Launch's result: none, ok, notfound, starterr
     bpc |-> "none",        \* the goroutine of appendPlaylist / eventLoop
     todo |-> <<>>,         \* appendPlaylist: commands still to send
     cbpos |-> -1,          \* the position the callback in progress was called with
     kpc |-> "idle",        \* Kill: idle, start, quit, select, nokill, cleanup, returned
     kconn |-> FALSE,       \* Kill: what `m.conn != nil` gave
     quitTried |-> FALSE,   \* Kill has called sendCommand("quit")
     timedOut |-> FALSE,    \* Kill's 500 ms timer fired
     killed |-> FALSE,      \* m.cmd.Process.Kill() was called
     forced |-> FALSE,      \* ... while the process was running
     wpc |-> "idle"]        \* Wait: idle, waiting, cleanup, returned

\* The player's process ends: its playlist and observations go with it and its
\* endpoint is closed; a named pipe disappears with it, a socket file stays
\* unless the player removed it (clean exit).
AfterExit(r) ==
    [r EXCEPT !.proc = "exited", !.ipc = FALSE, !.inq = <<>>,
              !.playlist = <<>>, !.pos = -1, !.obs = 0]

SockAfterExit(s, clean) ==
    IF sock = s /\ (windows \/ clean) THEN 0 ELSE sock

\* A post-clean that leaves the socket file in place.
PostCleanKeeps(addr) == sock

\* ipcPreClean / ipcPostClean: os.Remove(addr) on unix, nothing on windows.
ipcPostClean(addr) == IF windows THEN sock ELSE 0

ipcPreClean(addr) == IF windows THEN sock ELSE 0

\* The application runs: it has neither panicked nor left tea.Program.Run.
Running == ~crashed /\ ui.screen # "quit"

\* ipcDial(addr) succeeds when a player listens on the endpoint.
ipcDial(s) == ses[s].proc = "running" /\ ses[s].ipc /\ sock = s

\* A sendCommand whose write succeeds whatever the state of the player's end.
sendErrorNoneOnWrite(r) == IF ~r.conn THEN "noconn" ELSE "nil"

\* What sendCommand returns: "no IPC connection" without a connection, the
\* error of conn.Write once the player has closed its end, else nil.
sendError(r) ==
    IF ~r.conn THEN "noconn"
    ELSE IF r.proc = "running" /\ r.ipc /\ ~r.lost THEN "nil"
    ELSE "write"

\* sendCommand: the command reaches the player when the write succeeds.
sendCommand(r, cmd) ==
    IF sendError(r) = "nil"
    THEN [r EXCEPT !.inq = Append(@, cmd), !.sent = Append(@, cmd)]
    ELSE r

\* An MPV struct nothing refers to any more: its process has been reaped (or was
\* never started), its goroutines and the playback command have returned.
Garbage == [NoSession EXCEPT !.lpc = "returned"]

\* The goroutine of appendPlaylist / eventLoop returns; it held the last
\* reference to the struct when the playback command has delivered its message.
GoroutineEnds(s) ==
    IF gor[s] = "done" THEN Garbage ELSE [ses[s] EXCEPT !.bpc = "ended"]

\* MPV.cleanup on the struct: close the connection, m.conn = nil.
cleanup(r) == [r EXCEPT !.conn = FALSE]

PlayerInit ==
    /\ ses = [s \in Sess |-> NoSession]
    /\ windows \in BOOLEAN
    \* a socket file left behind by an earlier run may exist
    /\ sock \in (IF windows THEN {0} ELSE {0, MaxLaunch + 1})
    /\ crashed = FALSE

\* Launch up to m.cmd.Start(): the binary is looked up, the endpoint pre-cleaned,
\* the process started with URLs[0] as its argument.
LaunchStart(s, found, started) ==
    /\ Running
    /\ ses[s].lpc = "start"
    /\ IF ~found
       THEN /\ ses' = [ses EXCEPT ![s].lpc = "returned", ![s].lret = "notfound"]
            /\ UNCHANGED sock
       ELSE /\ sock' = ipcPreClean(s)
            /\ ses' = [ses EXCEPT ![s] =
                         IF started
                         THEN [@ EXCEPT !.proc = "running", !.playlist = <<0>>,
                                        !.pos = 0, !.playlistPos = ses[s].start,
                                        !.lpc = "dial", !.li = 0]
                         ELSE [@ EXCEPT !.lpc = "returned", !.lret = "starterr"]]
    /\ UNCHANGED <<windows, crashed, notPlayer>>

\* The player opens its IPC endpoint some time after it started.
MpvListen(s) ==
    /\ ses[s].proc = "running"
    /\ ~ses[s].ipc
    /\ IF windows THEN sock = 0 ELSE TRUE
    /\ ses' = [ses EXCEPT ![s].ipc = TRUE]
    /\ sock' = s
    /\ UNCHANGED <<windows, crashed, notPlayer>>

\* One round of Launch's poll loop: sleep 100 ms, dial; on success the goroutine
\* is started and Launch returns.
LaunchDial(s) ==
    /\ Running
    /\ ses[s].lpc = "dial"
    /\ ses[s].li < DialAttempts
    /\ ses' = [ses EXCEPT ![s] =
                 IF ipcDial(s)
                 THEN [@ EXCEPT !.conn = TRUE, !.li = 0,
                                !.lpc = "returned", !.lret = "ok",
                                !.bpc = IF ses[s].n > 1 THEN "send" ELSE "evcheck",
                                !.todo = IF ses[s].n > 1
                                         THEN AppendCmds(ses[s].n, ses[s].start)
                                         ELSE <<>>]
                 ELSE [@ EXCEPT !.li = @ + 1]]
    /\ UNCHANGED <<sock, windows, crashed, notPlayer>>

\* A dial result that reports the exhausted poll loop as an error.
GiveUpResultError == "connecterr"

\* What Launch returns after the poll loop: `return m, nil`.
GiveUpResult == "ok"

\* All rounds of the poll loop failed.
LaunchGiveUp(s) ==
    /\ Running
    /\ ses[s].lpc = "dial"
    /\ ses[s].li = DialAttempts
    /\ ses' = [ses EXCEPT ![s].lpc = "returned", ![s].li = 0, ![s].lret = GiveUpResult]
    /\ UNCHANGED <<sock, windows, crashed, notPlayer>>

\* appendPlaylist sends its next command.
AppendSend(s) ==
    /\ Running
    /\ ses[s].bpc = "send"
    /\ ses' = [ses EXCEPT ![s] =
                 [sendCommand(@, Head(ses[s].todo)) EXCEPT
                    !.todo = Tail(ses[s].todo),
                    !.bpc = IF Len(ses[s].todo) = 1 THEN "evcheck" ELSE "send"]]
    /\ UNCHANGED <<sock, windows, crashed, notPlayer>>

\* eventLoop: if m.conn == nil { return }
EventLoopCheck(s) ==
    /\ Running
    /\ ses[s].bpc = "evcheck"
    /\ ses' = [ses EXCEPT ![s] = IF ses[s].conn THEN [@ EXCEPT !.bpc = "evobserve"]
                                 ELSE GoroutineEnds(s)]
    /\ UNCHANGED <<sock, windows, crashed, notPlayer>>

\* eventLoop: sendCommand("observe_property", 1, "playlist-pos")
EventLoopObserve(s) ==
    /\ Running
    /\ ses[s].bpc = "evobserve"
    /\ ses' = [ses EXCEPT ![s] =
                 [sendCommand(@, Cmd("observe", 0)) EXCEPT !.bpc = "scanner"]]
    /\ UNCHANGED <<sock, windows, crashed, notPlayer>>

\* eventLoop: bufio.NewScanner(m.conn) and the first Scan; m.conn is read without
\* the lock, and a nil m.conn (cleanup has run) is a nil dereference in Scan.
EventLoopScanner(s) ==
    /\ Running
    /\ ses[s].bpc = "scanner"
    /\ IF ses[s].conn
       THEN /\ ses' = [ses EXCEPT ![s].bpc = "loop"]
            /\ UNCHANGED crashed
       ELSE /\ crashed' = TRUE
            /\ UNCHANGED ses
    /\ UNCHANGED <<sock, windows, notPlayer>>

\* A scanner that hands out the newest line it holds.
ScanNewest(q) == q[Len(q)]

\* scanner.Scan() / scanner.Bytes(): the oldest line not yet handed out.
ScanLine(q) == Head(q)

\* eventLoop reads a playlist-pos property-change, stores the position and calls
\* the callback; a line the scanner has buffered is read after a close as well.
EventLoopRead(s) ==
    /\ Running
    /\ ses[s].bpc = "loop"
    /\ ses[s].evq # <<>>
    /\ ses' = [ses EXCEPT ![s].evq = Tail(@),
                          ![s].playlistPos = ScanLine(ses[s].evq),
                          ![s].cbpos = ScanLine(ses[s].evq),
                          ![s].bpc = "cb"]
    /\ UNCHANGED <<sock, windows, crashed, notPlayer>>

\* scanner.Scan() fails: the connection was closed (unread lines are lost), or
\* the player is gone and everything it wrote has been read.
EventLoopEnd(s) ==
    /\ Running
    /\ ses[s].bpc = "loop"
    /\ \/ ~ses[s].conn
       \/ (ses[s].proc = "exited" \/ ses[s].lost) /\ ses[s].evq = <<>>
    /\ ses' = [ses EXCEPT ![s] = GoroutineEnds(s)]
    /\ UNCHANGED <<sock, windows, crashed, notPlayer>>

\* The events the player writes when its playlist-pos becomes p: one per
\* observation of the property, or one in all.
Events(r, p, k) == IF r.obs = 0 THEN <<>> ELSE [j \in 1 .. k |-> p]

\* The player processes the next command it received.
MpvProcess(s, k) ==
    /\ ses[s].proc = "running"
    /\ ses[s].inq # <<>>
    /\ k \in {1, Max(1, ses[s].obs)}
    /\ LET c == Head(ses[s].inq)
           r == [ses[s] EXCEPT !.inq = Tail(@)]
       IN  CASE c.verb = "loadfile" ->
                   /\ ses' = [ses EXCEPT ![s] = [r EXCEPT !.playlist = Append(@, c.arg)]]
                   /\ UNCHANGED sock
             [] c.verb = "setpos" ->
                   /\ ses' = [ses EXCEPT ![s] =
                                IF c.arg < Len(r.playlist) /\ c.arg # r.pos
                                THEN [r EXCEPT !.pos = c.arg,
                                               !.evq = @ \o Events(r, c.arg, k)]
                                ELSE r]
                   /\ UNCHANGED sock
             [] c.verb = "observe" ->
                   /\ ses' = [ses EXCEPT ![s] =
                                [r EXCEPT !.obs = @ + 1, !.evq = Append(@, r.pos)]]
                   /\ UNCHANGED sock
             [] c.verb = "quit" ->
                   /\ ses' = [ses EXCEPT ![s] = AfterExit(r)]
                   /\ sock' = SockAfterExit(s, TRUE)
             [] OTHER ->
                   /\ ses' = [ses EXCEPT ![s] = r]
                   /\ UNCHANGED sock
    /\ UNCHANGED <<windows, crashed, notPlayer>>

\* The player moves to playlist item p while fewer than `ahead` of its events
\* are unread.
Navigate(s, p, k, ahead) ==
    /\ ses[s].proc = "running"
    /\ p \in 0 .. (Len(ses[s].playlist) - 1)
    /\ p # ses[s].pos
    /\ k \in {1, Max(1, ses[s].obs)}
    /\ Len(ses[s].evq) < ahead
    /\ ses' = [ses EXCEPT ![s].pos = p, ![s].evq = @ \o Events(ses[s], p, k)]
    /\ UNCHANGED <<sock, windows, crashed, notPlayer>>

\* The player moves to another playlist item (the item ended, or the user
\* skipped) while the channel has read all earlier events.
MpvNavigate(s, p, k) == Navigate(s, p, k, MaxEvq)

\* The player drops the client of an established connection and keeps running:
\* the commands it has not processed and the client's observations go with it.
ConnLost(s) ==
    /\ ses[s].proc = "running"
    /\ ses[s].conn
    /\ ~ses[s].lost
    /\ ses' = [ses EXCEPT ![s].lost = TRUE, ![s].inq = <<>>, ![s].obs = 0]
    /\ UNCHANGED <<sock, windows, crashed, notPlayer>>

\* The player exits on its own: the user closed it, the playlist ended, it died.
MpvExit(s, clean) ==
    /\ ses[s].proc = "running"
    /\ ses' = [ses EXCEPT ![s] = AfterExit(@)]
    /\ sock' = SockAfterExit(s, clean)
    /\ UNCHANGED <<windows, crashed, notPlayer>>

\* A cmd.Wait() that does not block.
ReapedAtOnce(r) == TRUE

\* m.cmd.Wait() returns once the process has exited.
Reaped(r) == r.proc = "exited"

\* Wait: m.cmd.Wait() returns once the process has exited.
WaitReap(s) ==
    /\ Running
    /\ ses[s].wpc = "waiting"
    /\ Reaped(ses[s])
    /\ ses' = [ses EXCEPT ![s].wpc = "cleanup"]
    /\ UNCHANGED <<sock, windows, crashed, notPlayer>>

\* Wait: m.cleanup(); return err
WaitCleanup(s) ==
    /\ Running
    /\ ses[s].wpc = "cleanup"
    /\ ses' = [ses EXCEPT ![s] = [cleanup(@) EXCEPT !.wpc = "returned"]]
    /\ sock' = ipcPostClean(s)
    /\ UNCHANGED <<windows, crashed, notPlayer>>

\* m.cmd.Process.Kill() on the struct: the process dies at once, uncleanly.
ProcessKill(r) ==
    [AfterExit(r) EXCEPT !.killed = TRUE, !.forced = @ \/ r.proc = "running"]

\* Kill: if m.conn != nil
KillCheckConn(s) ==
    /\ Running
    /\ ses[s].kpc = "start"
    /\ ses' = [ses EXCEPT ![s].kconn = ses[s].conn,
                          ![s].kpc = IF ses[s].conn THEN "quit" ELSE "nokill"]
    /\ UNCHANGED <<sock, windows, crashed, notPlayer>>

\* A Kill that goes on to Process.Kill() without waiting for the exit.
AfterQuitKills == "nokill"

\* Kill after the quit command: wait for the exit or for the timer.
AfterQuit == "select"

\* Kill: sendCommand("quit"), then the goroutine that waits for the exit.
KillQuit(s) ==
    /\ Running
    /\ ses[s].kpc = "quit"
    /\ ses' = [ses EXCEPT ![s] =
                 [sendCommand(@, Cmd("quit", 0)) EXCEPT
                    !.quitTried = TRUE, !.kpc = AfterQuit]]
    /\ UNCHANGED <<sock, windows, crashed, notPlayer>>

\* Kill: case <-done: the process has exited, m.cmd.Wait() returned.
KillDone(s) ==
    /\ Running
    /\ ses[s].kpc = "select"
    /\ ses[s].proc = "exited"
    /\ ses' = [ses EXCEPT ![s].kpc = "cleanup"]
    /\ UNCHANGED <<sock, windows, crashed, notPlayer>>

\* Kill: case <-time.After(500 * time.Millisecond): m.cmd.Process.Kill()
KillTimeout(s) ==
    /\ Running
    /\ ses[s].kpc = "select"
    /\ ses' = [ses EXCEPT ![s] =
                 [ProcessKill(@) EXCEPT !.timedOut = TRUE, !.kpc = "cleanup"]]
    /\ sock' = IF ses[s].proc = "running" THEN SockAfterExit(s, FALSE) ELSE sock
    /\ UNCHANGED <<windows, crashed, notPlayer>>

\* Kill without a connection: m.cmd.Process.Kill()
KillNoConn(s) ==
    /\ Running
    /\ ses[s].kpc = "nokill"
    /\ ses' = [ses EXCEPT ![s] = [ProcessKill(@) EXCEPT !.kpc = "cleanup"]]
    /\ sock' = IF ses[s].proc = "running" THEN SockAfterExit(s, FALSE) ELSE sock
    /\ UNCHANGED <<windows, crashed, notPlayer>>

\* Kill: m.cleanup()
KillCleanup(s) ==
    /\ Running
    /\ ses[s].kpc = "cleanup"
    /\ ses' = [ses EXCEPT ![s] = [cleanup(@) EXCEPT !.kpc = "returned"]]
    /\ sock' = ipcPostClean(s)
    /\ UNCHANGED <<windows, crashed, notPlayer>>

\* A caller of the package: it launches one session, and on the session Launch
\* returned it calls Wait in a goroutine and Kill at most once, as tui.go does;
\* its callback returns at once.
CallLaunch(s, n, start) ==
    /\ Running
    /\ s = 1
    /\ ses[s].lpc = "idle"
    /\ ses' = [ses EXCEPT ![s].lpc = "start", ![s].n = n, ![s].start = start]
    /\ UNCHANGED <<sock, windows, crashed, notPlayer>>

CallWait(s) ==
    /\ Running
    /\ ses[s].lret = "ok"
    /\ ses[s].wpc = "idle"
    /\ ses' = [ses EXCEPT ![s].wpc = "waiting"]
    /\ UNCHANGED <<sock, windows, crashed, notPlayer>>

CallKill(s) ==
    /\ Running
    /\ ses[s].lret = "ok"
    /\ ses[s].kpc = "idle"
    /\ ses' = [ses EXCEPT ![s].kpc = "start"]
    /\ UNCHANGED <<sock, windows, crashed, notPlayer>>

CallbackReturn(s) ==
    /\ Running
    /\ ses[s].bpc = "cb"
    /\ ses' = [ses EXCEPT ![s].bpc = "loop", ![s].cbpos = -1]
    /\ UNCHANGED <<sock, windows, crashed, notPlayer>>

\* The steps of the package and of the player, whoever the caller is.
PlayerSteps(s) ==
    \/ \E found \in BOOLEAN, started \in BOOLEAN : LaunchStart(s, found, started)
    \/ MpvListen(s)
    \/ LaunchDial(s)
    \/ LaunchGiveUp(s)
    \/ AppendSend(s)
    \/ EventLoopCheck(s)
    \/ EventLoopObserve(s)
    \/ EventLoopScanner(s)
    \/ EventLoopRead(s)
    \/ EventLoopEnd(s)
    \/ \E k \in 1 .. 2 : MpvProcess(s, k)
    \/ \E p \in 0 .. (MaxUrls - 1), k \in 1 .. 2 : MpvNavigate(s, p, k)
    \/ \E clean \in BOOLEAN : MpvExit(s, clean)
    \/ WaitReap(s)
    \/ WaitCleanup(s)
    \/ KillCheckConn(s)
    \/ KillQuit(s)
    \/ KillDone(s)
    \/ KillTimeout(s)
    \/ KillNoConn(s)
    \/ KillCleanup(s)

PlayerNext ==
    \/ \E s \in Sess, n \in UrlCounts : \E start \in 0 .. (n - 1) : CallLaunch(s, n, start)
    \/ \E s \in Sess : CallWait(s)
    \/ \E s \in Sess : CallKill(s)
    \/ \E s \in Sess : CallbackReturn(s)
    \/ \E s \in Sess : PlayerSteps(s)

(***************************************************************************)
(* The terminal UI and the playback command: tui/tui.go                    *)
(***************************************************************************)
\* len(m.files): the files of the torrent, named 0 .. NumFiles - 1.
(***************************************************************************)
(* sendCommand step by step: MPV.mu, MPV.reqID and the callers that send   *)
(* on one connected session (ipc_windows.go 268-293, 329-337).             *)
(***************************************************************************)
MaxSend == 2       \* commands a caller sends

\* The callers of sendCommand: the goroutine of appendPlaylist / eventLoop,
\* Kill (its quit) and SetMediaTitle.
Senders == {"appender", "kill", "title"}

\* The commands a caller sends: Kill sends one quit.
Sends(c) == IF c = "kill" THEN 1 ELSE MaxSend

SendersInit ==
    snd = [mu |-> "",                               \* the holder of m.mu
           reqID |-> 0,                             \* m.reqID
           wire |-> <<>>,                           \* the commands written to m.conn
           pc |-> [c \in Senders |-> "idle"],        \* idle, or write: inside sendCommand
           id |-> [c \in Senders |-> 0],             \* the request_id marshalled
           left |-> [c \in Senders |-> Sends(c)],    \* calls still to make
           res |-> [c \in Senders |-> "none"]]       \* what the last call returned

\* A session Launch has just connected: the process runs, m.conn is set.
Connected ==
    [NoSession EXCEPT !.proc = "running", !.ipc = TRUE, !.conn = TRUE,
                      !.lpc = "returned", !.lret = "ok", !.n = 1]

\* A sendCommand that takes no lock.
MuIgnored(r) == TRUE

\* m.mu.Lock() returns when nobody holds m.mu.
MuFree(r) == r.mu = ""

\* sendCommand up to the write: m.mu.Lock(); without a connection the error
\* "no IPC connection" (and the deferred Unlock); else m.reqID++ and the
\* command marshalled with it.
SendLock(s, c) ==
    /\ snd.pc[c] = "idle"
    /\ snd.left[c] > 0
    /\ MuFree(snd)
    /\ IF ses[s].conn
       THEN snd' = [snd EXCEPT !.mu = c, !.reqID = @ + 1, !.id[c] = snd.reqID + 1,
                               !.pc[c] = "write"]
       ELSE snd' = [snd EXCEPT !.left[c] = @ - 1, !.res[c] = "noconn"]
    /\ UNCHANGED <<playerVars, cacheVars, concVars, bridgeVars, setVars, tuiVars, lockVars, fetchVars, episodeVars>>

\* m.conn.Write(data) and the deferred m.mu.Unlock(): the write fails once the
\* player has closed its end.
SendWrite(s, c) ==
    /\ snd.pc[c] = "write"
    /\ LET ok == ses[s].proc = "running" /\ ses[s].ipc
       IN  snd' = [snd EXCEPT !.wire = IF ok THEN Append(@, [id |-> snd.id[c], by |-> c])
                                            ELSE @,
                                !.mu = IF @ = c THEN "" ELSE @,
                                !.pc[c] = "idle",
                                !.left[c] = @ - 1,
                                !.res[c] = IF ok THEN "nil" ELSE "writeerr"]
    /\ UNCHANGED <<playerVars, cacheVars, concVars, bridgeVars, setVars, tuiVars, lockVars, fetchVars, episodeVars>>

\* cleanup(), called by Kill after its quit and by Wait after the process
\* ended: under m.mu the connection is closed and m.conn set to nil.
SendCleanup(s) ==
    /\ MuFree(snd)
    /\ ses[s].conn
    /\ (snd.left["kill"] = 0 /\ snd.pc["kill"] = "idle") \/ ses[s].proc = "exited"
    /\ ses' = [ses EXCEPT ![s] = cleanup(@)]
    /\ UNCHANGED <<sock, windows, crashed, notPlayer>>


(***************************************************************************)
(* The locks of a playback session: shared.mu (tui.go), MPV.mu and         *)
(* MPV.posMu (mpv.go), and the threads that take them: the UI update       *)
(* thread, the goroutine of cmdStartPlayback and the event reader of each  *)
(* session.                                                                *)
(***************************************************************************)
notLocks == <<cacheVars, concVars, bridgeVars, setVars, playerVars, tuiVars, sendVars,
              fetchVars, episodeVars>>

\* The threads of one playback session: the UI update thread, the goroutine
\* that runs the command of cmdStartPlayback, and the goroutine Launch starts
\* for appendPlaylist and eventLoop.
UiThread == "ui"
CmdGoroutine == "cmd"
EventReader == "reader"
LockThreads == {UiThread, CmdGoroutine, EventReader}
Nobody == "nobody"

LocksInit ==
    lk = [sh |-> Nobody,             \* the holder of shared.mu
          mu |-> Nobody,             \* the holder of m.mu
          pos |-> Nobody,            \* the holder of m.posMu
          pc |-> [t \in LockThreads |-> IF t = UiThread THEN "loop" ELSE "off"],
          mpv |-> FALSE,             \* shared.mpv # nil
          proc |-> "none",           \* m.cmd's process
          conn |-> FALSE,            \* m.conn # nil
          screen |-> "files",        \* m.screen, "quit" once tea.Quit ran
          quitting |-> FALSE]        \* ctrl+c was pressed

\* The positions at which a thread is inside Lock() of shared.mu, m.mu, m.posMu.
ShPcs == {"ensure", "urls", "existing", "store", "nil", "cb", "cleanupPlayback", "client"}
MuPcs == {"quit", "cleanup", "append", "observe1", "observe"}
PosPcs == {"pos"}

WantsSh(t) == lk.pc[t] \in ShPcs
WantsMu(t) == lk.pc[t] \in MuPcs
WantsPos(t) == lk.pc[t] \in PosPcs

\* sync.Mutex.Lock() returns when nobody holds the lock.
ShUnlocked == lk.sh = Nobody
MuUnlocked == lk.mu = Nobody
PosUnlocked == lk.pos = Nobody

\* Kill's Process.Kill, and the player obeying quit: the process is gone.
Killed(p) == IF p = "running" THEN "exited" ELSE p

\* enter on the file list: beginPlayback, whose command bubbletea runs in a
\* goroutine of its own. One session at a time: the goroutines of the last
\* one have returned.
LkKeyEnter ==
    /\ lk.pc[UiThread] = "loop"
    /\ lk.screen = "files"
    /\ lk.pc[CmdGoroutine] \in {"off", "done"}
    /\ lk.pc[EventReader] \in {"off", "done"}
    /\ lk' = [lk EXCEPT !.screen = "playing", !.pc[CmdGoroutine] = "ensure",
                        !.pc[EventReader] = "off", !.proc = "none", !.conn = FALSE]
    /\ UNCHANGED notLocks

\* q on the playing screen: cleanupPlayback() inside Update.
LkKeyQ ==
    /\ lk.pc[UiThread] = "loop"
    /\ lk.screen = "playing"
    /\ lk' = [lk EXCEPT !.pc[UiThread] = "cleanupPlayback"]
    /\ UNCHANGED notLocks

\* ctrl+c on any screen: cleanup() inside Update, then tea.Quit.
LkKeyCtrlC ==
    /\ lk.pc[UiThread] = "loop"
    /\ lk.screen # "quit"
    /\ lk' = [lk EXCEPT !.pc[UiThread] = "cleanupPlayback", !.quitting = TRUE]
    /\ UNCHANGED notLocks

\* cleanupPlayback: shared.mu locked, then Kill of shared.mpv when there is one.
LkCleanupPlayback ==
    /\ lk.pc[UiThread] = "cleanupPlayback"
    /\ ShUnlocked
    /\ lk' = [lk EXCEPT !.sh = UiThread,
                        !.pc[UiThread] = IF lk.mpv THEN "kill" ELSE "killed"]
    /\ UNCHANGED notLocks

\* cmdStartPlayback, "Kill any existing mpv": shared.mu locked; Kill with the
\* lock held when shared.mpv is set, else Unlock.
LkKillExisting ==
    /\ lk.pc[CmdGoroutine] = "existing"
    /\ ShUnlocked
    /\ lk' = IF lk.mpv
             THEN [lk EXCEPT !.sh = CmdGoroutine, !.pc[CmdGoroutine] = "kill"]
             ELSE [lk EXCEPT !.pc[CmdGoroutine] = "launch"]
    /\ UNCHANGED notLocks

\* Kill: with a connection the quit command, without one Process.Kill.
LkKillStart(t) ==
    /\ lk.pc[t] = "kill"
    /\ lk' = IF lk.conn
             THEN [lk EXCEPT !.pc[t] = "quit"]
             ELSE [lk EXCEPT !.pc[t] = "cleanup", !.proc = Killed(@)]
    /\ UNCHANGED notLocks

\* sendCommand: m.mu locked; the write follows.
LkSendCommand(t) ==
    /\ lk.pc[t] \in {"quit", "append", "observe1", "observe"}
    /\ MuUnlocked
    /\ lk' = [lk EXCEPT !.mu = t,
                        !.pc[t] = CASE @ = "quit" -> "quitWrite"
                                    [] @ = "append" -> "appendWrite"
                                    [] @ = "observe1" -> "observe1Write"
                                    [] OTHER -> "observeWrite"]
    /\ UNCHANGED notLocks

\* sendCommand with m.mu held: the write, bounded by its deadline of two
\* seconds, and the deferred Unlock. appendPlaylist ends with
\* observe_property and calls eventLoop, which starts with observe_property.
LkWrite(t) ==
    /\ lk.pc[t] \in {"quitWrite", "appendWrite", "observe1Write", "observeWrite"}
    /\ lk' = [lk EXCEPT !.mu = Nobody,
                        !.pc[t] = CASE @ = "quitWrite" -> "select"
                                    [] @ = "appendWrite" -> "observe1"
                                    [] @ = "observe1Write" -> "observe"
                                    [] OTHER -> "scan"]
    /\ UNCHANGED notLocks

\* Kill's select: the process has ended, or 500 ms passed and Process.Kill.
LkKillSelect(t) ==
    /\ lk.pc[t] = "select"
    /\ lk' = [lk EXCEPT !.pc[t] = "cleanup", !.proc = Killed(@)]
    /\ UNCHANGED notLocks

\* MPV.cleanup, called by Kill and by Wait: m.mu locked, the connection
\* closed, m.conn = nil, the deferred Unlock. Kill was called with shared.mu
\* held, Wait without.
LkMpvCleanup(t) ==
    /\ lk.pc[t] = "cleanup"
    /\ MuUnlocked
    /\ lk' = [lk EXCEPT !.conn = FALSE,
                        !.pc[t] = IF lk.sh = t THEN "killed" ELSE "waited"]
    /\ UNCHANGED notLocks

\* After Kill, still under shared.mu: shared.mpv = nil and Unlock. In
\* cleanupPlayback the server is closed too, then the file list is shown or
\* cleanup() locks again; in cmdStartPlayback Launch is next.
LkKilled(t) ==
    /\ lk.pc[t] = "killed"
    /\ lk' = IF t = UiThread
             THEN [lk EXCEPT !.mpv = FALSE, !.sh = Nobody,
                             !.pc[t] = IF lk.quitting THEN "client" ELSE "loop",
                             !.screen = IF lk.quitting THEN @ ELSE "files"]
             ELSE [lk EXCEPT !.mpv = FALSE, !.sh = Nobody, !.pc[t] = "launch"]
    /\ UNCHANGED notLocks

\* cleanup(): shared.mu locked again, the client closed, the deferred Unlock,
\* and Update returns tea.Quit.
LkCleanupReturns ==
    /\ lk.pc[UiThread] = "client"
    /\ ShUnlocked
    /\ lk' = [lk EXCEPT !.pc[UiThread] = "exit", !.screen = "quit"]
    /\ UNCHANGED notLocks

\* cmdStartPlayback: the server ensured under shared.mu (NewServer may fail),
\* then the URL and title lists are started.
LkEnsureServer ==
    /\ lk.pc[CmdGoroutine] = "ensure"
    /\ ShUnlocked
    /\ \E ok \in BOOLEAN :
         lk' = [lk EXCEPT !.pc[CmdGoroutine] = IF ok THEN "lists" ELSE "exitmsg"]
    /\ UNCHANGED notLocks

\* cmdStartPlayback between two critical sections: the lists reach the
\* server's address, the priorities are set, Wait has returned.
LkBetween ==
    /\ lk.pc[CmdGoroutine] \in {"lists", "priorities", "waited"}
    /\ lk' = [lk EXCEPT !.pc[CmdGoroutine] = CASE @ = "lists" -> "urls"
                                                [] @ = "priorities" -> "existing"
                                                [] OTHER -> "nil"]
    /\ UNCHANGED notLocks

\* cmdStartPlayback: the server's address read under shared.mu.
LkBuildUrls ==
    /\ lk.pc[CmdGoroutine] = "urls"
    /\ ShUnlocked
    /\ lk' = [lk EXCEPT !.pc[CmdGoroutine] = "priorities"]
    /\ UNCHANGED notLocks

\* player.Launch: an error, or the process started and, when the dial
\* succeeded, the goroutine of appendPlaylist (several URLs) or of eventLoop.
LkLaunch ==
    /\ lk.pc[CmdGoroutine] = "launch"
    /\ \/ lk' = [lk EXCEPT !.pc[CmdGoroutine] = "exitmsg"]
       \/ lk' = [lk EXCEPT !.pc[CmdGoroutine] = "store", !.proc = "running"]
       \/ \E first \in {"append", "observe"} :
            lk' = [lk EXCEPT !.pc[CmdGoroutine] = "store", !.proc = "running",
                             !.conn = TRUE, !.pc[EventReader] = first]
    /\ UNCHANGED notLocks

\* sh.mu.Lock(); sh.mpv = mpvInst; sh.mu.Unlock().
LkStoreMpv ==
    /\ lk.pc[CmdGoroutine] = "store"
    /\ ShUnlocked
    /\ lk' = [lk EXCEPT !.mpv = TRUE, !.pc[CmdGoroutine] = "wait"]
    /\ UNCHANGED notLocks

\* mpvInst.Wait(): cmd.Wait returns once the process has ended, then cleanup.
LkWait ==
    /\ lk.pc[CmdGoroutine] = "wait"
    /\ lk.proc = "exited"
    /\ lk' = [lk EXCEPT !.pc[CmdGoroutine] = "cleanup"]
    /\ UNCHANGED notLocks

\* sh.mu.Lock(); sh.mpv = nil; sh.mu.Unlock() after Wait.
LkClearMpv ==
    /\ lk.pc[CmdGoroutine] = "nil"
    /\ ShUnlocked
    /\ lk' = [lk EXCEPT !.mpv = FALSE, !.pc[CmdGoroutine] = "exitmsg"]
    /\ UNCHANGED notLocks

\* The program takes a message from a goroutine: its loop is between two
\* calls of Update, or its context is done.
Receiving == lk.pc[UiThread] = "loop" \/ lk.screen = "quit"

\* The command returns mpvExitedMsg; Update shows the file list.
LkExitedMsg ==
    /\ lk.pc[CmdGoroutine] = "exitmsg"
    /\ Receiving
    /\ lk' = [lk EXCEPT !.pc[CmdGoroutine] = "done",
                        !.screen = IF @ = "playing" THEN "files" ELSE @]
    /\ UNCHANGED notLocks

\* scanner.Scan(): a playlist-pos event of the running player, or the end of
\* the stream once the connection is closed or the player gone.
LkScan ==
    /\ lk.pc[EventReader] = "scan"
    /\ lk' = IF lk.conn /\ lk.proc = "running"
             THEN [lk EXCEPT !.pc[EventReader] = "pos"]
             ELSE [lk EXCEPT !.pc[EventReader] = "done"]
    /\ UNCHANGED notLocks

\* m.posMu.Lock(); m.playlistPos = pos; cb := m.onPosChange; m.posMu.Unlock();
\* then cb(pos) is called.
LkStorePos ==
    /\ lk.pc[EventReader] = "pos"
    /\ PosUnlocked
    /\ lk' = [lk EXCEPT !.pc[EventReader] = "call"]
    /\ UNCHANGED notLocks

\* cb(pos): OnPlaylistPos starts.
LkCall ==
    /\ lk.pc[EventReader] = "call"
    /\ lk' = [lk EXCEPT !.pc[EventReader] = "cb"]
    /\ UNCHANGED notLocks

\* The holder of shared.mu when OnPlaylistPos calls p.Send.
AfterProgramReadHeld(t) == t

AfterProgramRead(t) == Nobody

\* OnPlaylistPos: sh.mu.Lock(); p := sh.program; sh.mu.Unlock().
LkCallback ==
    /\ lk.pc[EventReader] = "cb"
    /\ ShUnlocked
    /\ lk' = [lk EXCEPT !.sh = AfterProgramRead(EventReader), !.pc[EventReader] = "send"]
    /\ UNCHANGED notLocks

\* p.Send(playlistPosMsg): returns once the program took the message.
LkSend ==
    /\ lk.pc[EventReader] = "send"
    /\ Receiving
    /\ lk' = [lk EXCEPT !.pc[EventReader] = "scan",
                        !.sh = IF @ = EventReader THEN Nobody ELSE @]
    /\ UNCHANGED notLocks

\* The player ends by itself: the playlist is over or its window was closed.
LkProcessExits ==
    /\ lk.proc = "running"
    /\ lk' = [lk EXCEPT !.proc = "exited"]
    /\ UNCHANGED notLocks

\* The steps of a thread other than the keys and the player's own end.
LkStep(t) ==
    \/ t = UiThread /\ (LkCleanupPlayback \/ LkCleanupReturns)
    \/ t # EventReader /\ (LkKillStart(t) \/ LkKillSelect(t) \/ LkMpvCleanup(t) \/ LkKilled(t))
    \/ LkSendCommand(t) \/ LkWrite(t)
    \/ t = CmdGoroutine /\ (LkEnsureServer \/ LkBetween \/ LkBuildUrls \/ LkKillExisting
                             \/ LkLaunch \/ LkStoreMpv \/ LkWait \/ LkClearMpv
                             \/ LkExitedMsg)
    \/ t = EventReader /\ (LkScan \/ LkStorePos \/ LkCall \/ LkCallback \/ LkSend)

LocksNext ==
    \/ LkKeyEnter \/ LkKeyQ \/ LkKeyCtrlC
    \/ \E t \in LockThreads : LkStep(t)
    \/ LkProcessExits

NumFiles == MaxUrls

\* The calls Update makes on the cache and on the torrent.
Free(i) == [op |-> "free", item |-> i]
Prio(i) == [op |-> "prio", item |-> i]

\* freeEpisodeRAM(i) for i = from .. to - 1, in order.
Frees(from, to) == [j \in 1 .. (to - from) |-> Free(from + j - 1)]

\* m.files by index.
FileIdx == 0 .. (NumFiles - 1)

\* A piece range [first, end): File.BeginPieceIndex(), File.EndPieceIndex().
Range(first, end) == [first |-> first, end |-> end]

\* The torrent of a run: a first file of two pieces, files of one piece, and an
\* empty last file.
DefaultLayout ==
    [i \in FileIdx |->
        IF i = 0 THEN Range(0, 2)
        ELSE IF i = NumFiles - 1 THEN Range(i + 1, i + 1)
        ELSE Range(i + 1, i + 2)]

\* The divisor of the boost, (end-first)/20: a twentieth is 5%.
Twentieth == 20

\* A boost that takes a twentieth rounded up.
BoostEndRoundedUp(r) == r.first + ((r.end - r.first) + Twentieth - 1) \div Twentieth

\* boost := first + (end-first)/20; if boost <= first { boost = first + 1 }
BoostEnd(r) ==
    LET boost == r.first + (r.end - r.first) \div Twentieth
    IN  IF boost <= r.first THEN r.first + 1 ELSE boost

\* for i := first; i < boost; i++ { t.Piece(i).SetPriority(PiecePriorityNow) }
BoostPieces(r) == r.first .. (BoostEnd(r) - 1)

\* A loop that leaves the other files as they are.
FilePrioritiesKeepOthers(old, idx) == [old EXCEPT ![idx] = "normal"]

\* for i, f := range files: Normal for i == idx, None for the others.
FilePriorities(old, idx) ==
    [i \in FileIdx |-> IF i = idx THEN "normal" ELSE "none"]

\* cmdStartPlayback: boost := first + (end-first)/20, at least first + 1, and
\* the pieces first .. boost - 1 of files[actualIdx] set to Now.
StartBoostPieces(r) ==
    LET boost == r.first + (r.end - r.first) \div Twentieth
    IN  r.first .. ((IF boost <= r.first THEN r.first + 1 ELSE boost) - 1)

\* The priorities cmdStartPlayback issues for files[actualIdx].
StartPriorities(old, lay, idx) ==
    [files |-> [i \in FileIdx |-> IF i = idx THEN "normal" ELSE "none"],
     now |-> StartBoostPieces(lay[idx]), by |-> idx]

\* setPriorities(fileIdx): nothing for an index past the files.
IssuePriorities(old, lay, idx) ==
    IF idx >= NumFiles THEN old
    ELSE [files |-> FilePriorities(old.files, idx), now |-> BoostPieces(lay[idx]),
          by |-> idx]

ModelInit ==
    /\ ui = [screen |-> "files", prevScreen |-> "files", currentFile |-> 0,
             streamAll |-> FALSE, busy |-> FALSE, err |-> FALSE,
             server |-> 0]    \* shared.server: the bridge serving (named by the
                              \* session that created it), or 0 (nil)
    /\ shmpv = 0
    /\ gor = [s \in Sess |-> "idle"]
    /\ ops = <<>>
    /\ prio = [files |-> [i \in FileIdx |-> "unset"], now |-> {}, by |-> -1]

TuiInit == ModelInit /\ layout = DefaultLayout

\* The session the next call of cmdStartPlayback launches.
NextSession(s) == gor[s] = "idle" /\ \A t \in Sess : t < s => gor[t] # "idle"

\* Kill run to its end on the struct: the process is gone, the connection closed.
KillFinished(r) == [cleanup(AfterExit(r)) EXCEPT !.kpc = "returned"]

\* beginPlayback(fileIdx, all) and the closure cmdStartPlayback captures:
\* all files from StartIndex 0 in stream-all mode, else the one file.
beginPlayback(s, fileIdx, all) ==
    /\ Running
    /\ ~ui.busy
    /\ ui.screen = "files"
    /\ NextSession(s)
    /\ ui' = [ui EXCEPT !.screen = "playing", !.currentFile = fileIdx,
                        !.streamAll = all, !.err = FALSE]
    /\ gor' = [gor EXCEPT ![s] = "setup"]
    /\ ses' = [ses EXCEPT ![s].n = IF all THEN NumFiles ELSE 1,
                          ![s].start = IF all THEN fileIdx ELSE 0,
                          ![s].base = IF all THEN 0 ELSE fileIdx]
    /\ ops' = <<>>
    /\ UNCHANGED <<shmpv, sock, windows, crashed, fileSet, prio, cacheVars, notTui>>

\* updateFiles: "enter" plays the file under the cursor.
KeyEnter(s, cursor) == beginPlayback(s, cursor, FALSE)

\* updateFiles: "a" streams all files.
KeyA(s) == beginPlayback(s, 0, TRUE)

\* if sh.server == nil { srv := stream.NewServer(); sh.server = srv; go srv.Serve() }
EnsureServer(cur, s) == IF cur = 0 THEN s ELSE cur

\* cmdStartPlayback up to player.Launch: the bridge is created if there is none,
\* server.SetFiles(files), the URLs from server.FileURL, the priorities of the
\* start file, Kill of a session still stored in shared.mpv.
CmdSetup(s) ==
    /\ Running
    /\ ~ui.busy
    /\ gor[s] = "setup"
    /\ ui' = [ui EXCEPT !.server = EnsureServer(@, s)]
    /\ fileSet' = [k \in 1 .. NumFiles |-> k]
    /\ IF shmpv # 0
       THEN /\ ses' = [ses EXCEPT ![shmpv] = KillFinished(@), ![s].lpc = "start",
                                  ![s].urlsrv = ui'.server]
            /\ sock' = IF sock = shmpv \/ ~windows THEN 0 ELSE sock
       ELSE /\ ses' = [ses EXCEPT ![s].lpc = "start", ![s].urlsrv = ui'.server]
            /\ UNCHANGED sock
    /\ shmpv' = 0
    /\ prio' = StartPriorities(prio, layout, ses[s].base + ses[s].start)
    /\ gor' = [gor EXCEPT ![s] = "launch"]
    /\ UNCHANGED <<ops, windows, crashed, cacheVars, notTui>>

\* cmdStartPlayback after player.Launch: an error becomes mpvExitedMsg{err};
\* else shared.mpv = mpvInst and mpvInst.Wait() is called.
CmdLaunched(s) ==
    /\ Running
    /\ ~ui.busy
    /\ gor[s] = "launch"
    /\ ses[s].lpc = "returned"
    /\ IF ses[s].lret = "ok"
       THEN /\ shmpv' = s
            /\ ses' = [ses EXCEPT ![s].wpc = "waiting"]
            /\ gor' = [gor EXCEPT ![s] = "wait"]
       ELSE /\ gor' = [gor EXCEPT ![s] = "msg"]
            /\ UNCHANGED <<shmpv, ses>>
    /\ UNCHANGED <<ui, ops, sock, windows, crashed, fileSet, prio, cacheVars, notTui>>

\* cmdStartPlayback after Wait returned: shared.mpv = nil, return mpvExitedMsg.
CmdWaited(s) ==
    /\ Running
    /\ ~ui.busy
    /\ gor[s] = "wait"
    /\ ses[s].wpc = "returned"
    /\ shmpv' = 0
    /\ gor' = [gor EXCEPT ![s] = "msg"]
    /\ UNCHANGED <<ui, ops, playerVars, fileSet, prio, cacheVars, notTui>>

\* A message that carries the error of Wait only.
ExitedErrOfWait(r) == r.forced

\* mpvExitedMsg.err != nil: Launch failed, or Wait reported a process ended by
\* Process.Kill.
ExitedErr(r) == r.lret # "ok" \/ r.forced

\* Update(mpvExitedMsg): updatePlaying runs cleanupPlayback and returns to the
\* file list; every other screen drops the message.
UpdateExited(s) ==
    /\ Running
    /\ ~ui.busy
    /\ gor[s] = "msg"
    /\ gor' = [gor EXCEPT ![s] = "done"]
    /\ ops' = <<>>
    /\ LET left == IF ses[s].bpc \in {"none", "ended"} THEN Garbage ELSE ses[s]
       IN  IF ui.screen = "playing"
           THEN /\ ui' = [ui EXCEPT !.screen = "files",
                                    !.err = @ \/ ExitedErr(ses[s]),
                                    !.server = 0]
                /\ shmpv' = 0
                /\ IF shmpv # 0
                   THEN /\ ses' = [ses EXCEPT ![s] = left, ![shmpv] = KillFinished(@)]
                        /\ sock' = IF sock = shmpv \/ ~windows THEN 0 ELSE sock
                   ELSE /\ ses' = [ses EXCEPT ![s] = left]
                        /\ UNCHANGED sock
           ELSE /\ ses' = [ses EXCEPT ![s] = left]
                /\ UNCHANGED <<ui, shmpv, sock>>
    /\ UNCHANGED <<windows, crashed, fileSet, prio, cacheVars, notTui>>

\* A handler of playlistPosMsg that frees nothing.
PlaylistPosOpsNoFree(cur, newPos) == <<Prio(newPos)>>

\* updatePlaying(playlistPosMsg): the calls made for a position in range.
PlaylistPosOps(cur, newPos) ==
    (IF newPos > cur THEN Frees(cur, newPos) ELSE <<>>) \o <<Prio(newPos)>>

\* An eviction of the file left behind only, whatever the distance moved.
FreeEpisodesFirstOnly(m, lay, from, to) ==
    IF from >= to THEN m ELSE FreePiecesOp(m, lay[from].first, lay[from].end)

RECURSIVE FreeEpisodes(_, _, _, _)
\* The cache after freeEpisodeRAM(i) for i = from .. to - 1:
\* mt.FreePieces(f.BeginPieceIndex(), f.EndPieceIndex()) for each.
FreeEpisodes(m, lay, from, to) ==
    IF from >= to THEN m
    ELSE FreeEpisodes(FreePiecesOp(m, lay[from].first, lay[from].end), lay, from + 1, to)

\* Update(playlistPosMsg{pos}): the callback's p.Send is received by the UI.
UpdatePlaylistPos(s) ==
    /\ Running
    /\ ~ui.busy
    /\ ses[s].bpc = "cb"
    /\ ses' = [ses EXCEPT ![s].bpc = "loop", ![s].cbpos = -1]
    /\ LET newPos == ses[s].cbpos
       IN  IF ui.screen = "playing" /\ newPos >= 0 /\ newPos < NumFiles
           THEN /\ ops' = PlaylistPosOps(ui.currentFile, newPos)
                /\ ui' = [ui EXCEPT !.currentFile = newPos]
                /\ prio' = IssuePriorities(prio, layout, newPos)
                /\ pieces' = FreeEpisodes(pieces, layout, ui.currentFile, newPos)
                /\ hnd' = HandleAfter(hnd, pieces')
                /\ det' = DetAfter(hnd, pieces, pieces')
           ELSE /\ ops' = <<>>
                /\ UNCHANGED <<ui, prio, pieces, hnd, det>>
    /\ UNCHANGED <<shmpv, gor, sock, windows, crashed, fileSet, piecesNil, ret,
                   panicked, notTui>>

\* Update(KeyMsg ctrl+s): the settings screen opens over any other screen.
KeyCtrlS ==
    /\ Running
    /\ ~ui.busy
    /\ ui.screen # "config"
    /\ ui' = [ui EXCEPT !.prevScreen = ui.screen, !.screen = "config"]
    /\ ops' = <<>>
    /\ UNCHANGED <<shmpv, gor, playerVars, fileSet, prio, cacheVars, notTui>>

\* updateConfig(KeyMsg esc): back to the previous screen.
KeyEsc ==
    /\ Running
    /\ ~ui.busy
    /\ ui.screen = "config"
    /\ ui' = [ui EXCEPT !.screen = ui.prevScreen]
    /\ ops' = <<>>
    /\ UNCHANGED <<shmpv, gor, playerVars, fileSet, prio, cacheVars, notTui>>

\* ctrl+c on any screen, q on the file list and on the playing screen:
\* m.cleanup() calls Kill on shared.mpv under shared.mu, then tea.Quit.
KeyQuit ==
    /\ Running
    /\ ~ui.busy
    /\ ops' = <<>>
    /\ IF shmpv = 0
       THEN /\ ui' = [ui EXCEPT !.screen = "quit", !.server = 0]
            /\ UNCHANGED ses
       ELSE /\ ses[shmpv].kpc = "idle"
            /\ ui' = [ui EXCEPT !.busy = TRUE]
            /\ ses' = [ses EXCEPT ![shmpv].kpc = "start"]
    /\ UNCHANGED <<shmpv, gor, sock, windows, crashed, fileSet, prio, cacheVars, notTui>>

\* cleanupPlayback after Kill returned: shared.mpv = nil; the program quits.
QuitAfterKill ==
    /\ ~crashed
    /\ ui.busy
    /\ ses[shmpv].kpc = "returned"
    /\ shmpv' = 0
    /\ ui' = [ui EXCEPT !.busy = FALSE, !.screen = "quit", !.server = 0]
    /\ UNCHANGED <<ops, gor, playerVars, fileSet, prio, cacheVars, notTui>>

\* Update(KeyMsg ctrl+c), on any screen: m.quitting = true, m.cleanup() (Kill of
\* shared.mpv under shared.mu, the bridge closed), return tea.Quit. The program
\* has not exited yet: the goroutines of commands and sessions still run.
KeyCtrlC ==
    /\ Running
    /\ ~ui.busy
    /\ ui.screen # "quitting"
    /\ ops' = <<>>
    /\ IF shmpv = 0
       THEN /\ ui' = [ui EXCEPT !.screen = "quitting", !.server = 0]
            /\ UNCHANGED ses
       ELSE /\ ses[shmpv].kpc = "idle"
            /\ ui' = [ui EXCEPT !.busy = TRUE]
            /\ ses' = [ses EXCEPT ![shmpv].kpc = "start"]
    /\ UNCHANGED <<shmpv, gor, sock, windows, crashed, fileSet, prio, cacheVars, notTui>>

\* cleanupPlayback after Kill returned, in the handler of ctrl+c.
CtrlCAfterKill ==
    /\ ~crashed
    /\ ui.busy
    /\ ses[shmpv].kpc = "returned"
    /\ shmpv' = 0
    /\ ui' = [ui EXCEPT !.busy = FALSE, !.screen = "quitting", !.server = 0]
    /\ UNCHANGED <<ops, gor, playerVars, fileSet, prio, cacheVars, notTui>>

\* tea.Quit takes effect: Program.Run returns and the process exits, whatever
\* its goroutines are doing.
ProgramExits ==
    /\ ui.screen = "quitting"
    /\ ui' = [ui EXCEPT !.screen = "quit"]
    /\ ops' = <<>>
    /\ UNCHANGED <<shmpv, gor, playerVars, fileSet, prio, cacheVars, notTui>>

\* The first playback of a run.
FirstSession == {1}

\* The steps of the package and of the player under the UI: an item of the
\* playlist ends and the player moves on to the next.
TuiPlayerSteps(s) ==
    \/ \E found \in BOOLEAN, started \in BOOLEAN : LaunchStart(s, found, started)
    \/ MpvListen(s)
    \/ LaunchDial(s)
    \/ LaunchGiveUp(s)
    \/ AppendSend(s)
    \/ EventLoopCheck(s)
    \/ EventLoopObserve(s)
    \/ EventLoopScanner(s)
    \/ EventLoopRead(s)
    \/ EventLoopEnd(s)
    \/ \E k \in 1 .. 2 : MpvProcess(s, k)
    \/ \E k \in 1 .. 2 : Navigate(s, ses[s].pos + 1, k, MaxEvq + 1)
    \/ \E clean \in BOOLEAN : MpvExit(s, clean)
    \/ WaitReap(s)
    \/ WaitCleanup(s)
    \/ KillCheckConn(s)
    \/ KillQuit(s)
    \/ KillDone(s)
    \/ KillTimeout(s)
    \/ KillNoConn(s)
    \/ KillCleanup(s)

\* One playback under the UI, of one file or of all files.
TuiNext ==
    \/ \E s \in FirstSession, cursor \in 0 .. (NumFiles - 1) : KeyEnter(s, cursor)
    \/ \E s \in FirstSession : KeyA(s)
    \/ \E s \in FirstSession : CmdSetup(s)
    \/ \E s \in FirstSession : CmdLaunched(s)
    \/ \E s \in FirstSession : CmdWaited(s)
    \/ \E s \in FirstSession : UpdateExited(s)
    \/ \E s \in FirstSession : UpdatePlaylistPos(s)
    \/ KeyCtrlS
    \/ KeyEsc
    \/ KeyQuit
    \/ QuitAfterKill
    \/ \E s \in FirstSession : TuiPlayerSteps(s)

\* The steps of the package and of the player for a playlist of one item.
OneFilePlayerSteps(s) ==
    \/ \E found \in BOOLEAN, started \in BOOLEAN : LaunchStart(s, found, started)
    \/ MpvListen(s)
    \/ LaunchDial(s)
    \/ LaunchGiveUp(s)
    \/ EventLoopCheck(s)
    \/ EventLoopObserve(s)
    \/ EventLoopScanner(s)
    \/ EventLoopRead(s)
    \/ EventLoopEnd(s)
    \/ \E k \in 1 .. 2 : MpvProcess(s, k)
    \/ \E clean \in BOOLEAN : MpvExit(s, clean)
    \/ WaitReap(s)
    \/ WaitCleanup(s)
    \/ KillCheckConn(s)
    \/ KillQuit(s)
    \/ KillDone(s)
    \/ KillTimeout(s)
    \/ KillNoConn(s)
    \/ KillCleanup(s)

\* Playbacks of one file, one after the other, under the UI.
SessionsNext ==
    \/ \E s \in Sess : KeyEnter(s, NumFiles - 1)
    \/ \E s \in Sess : CmdSetup(s)
    \/ \E s \in Sess : CmdLaunched(s)
    \/ \E s \in Sess : CmdWaited(s)
    \/ \E s \in Sess : UpdateExited(s)
    \/ \E s \in Sess : UpdatePlaylistPos(s)
    \/ KeyCtrlS
    \/ KeyEsc
    \/ KeyQuit
    \/ QuitAfterKill
    \/ \E s \in Sess : OneFilePlayerSteps(s)

\* One memPiece under every read and write: the entry of piece 0.
PieceNext ==
    \/ Piece(0)
    \/ \E k \in BufLens, off \in Offsets : ReadAt(k, off)
    \/ \E k \in BufLens, off \in Offsets : WriteAt(k, off)
    \/ MarkComplete
    \/ MarkNotComplete
    \/ Completion

\* The piece map under creation, eviction and close; pieces are written whole
\* (the transfer engine's chunk writes, taken together) and read from any offset.
CacheNext ==
    \/ \E idx \in PieceIdx : Piece(idx)
    \/ \E s \in RangeArgs, e \in RangeArgs : FreePieces(s, e)
    \/ Close
    \/ \E off \in Offsets : ReadAt(PieceLen, off)
    \/ WriteAt(PieceLen, 0)
    \/ MarkComplete
    \/ MarkNotComplete
    \/ Completion

(***************************************************************************)
(* The terminal UI that starts one player per episode (keys n and p):      *)
(* updateFiles, beginPlayback, updatePlaying, cmdPlayFile, freeEpisodeRAM  *)
(* and killMPV of tui.go's first Model.                                    *)
(***************************************************************************)
notEpisode == <<cacheVars, concVars, bridgeVars, setVars, playerVars, tuiVars, sendVars,
                lockVars, fetchVars>>

EpisodeInit ==
    epi = [screen |-> "files",       \* m.screen; "quit" after tea.Quit
           cursor |-> 0,             \* m.cursor
           currentFile |-> 0,        \* m.currentFile
           streamAll |-> FALSE,      \* m.streamAll
           totalFiles |-> 0,         \* m.totalFiles
           pc |-> "none",            \* the goroutine of cmdPlayFile
           idx |-> 0,                \* its argument
           mpv |-> FALSE,            \* shared.mpv # nil
           proc |-> "none",          \* the player process
           want |-> {},              \* the episode p asked for: the one before
                                     \* the episode that played when p was pressed
           used |-> 0,               \* the last index applied to m.files
           panicked |-> FALSE]       \* index out of range

EpAlive == ~epi.panicked /\ epi.screen # "quit"

\* m.files[i]: a runtime panic when i is outside [0, len(m.files)).
IndexFiles(e, i) ==
    IF i \in FileIdx THEN [e EXCEPT !.used = i]
    ELSE [e EXCEPT !.used = i, !.panicked = TRUE]

\* viewPlaying, which the program calls after Update: m.files[m.currentFile]
\* when m.currentFile < len(m.files).
viewPlaying(e) ==
    IF e.screen = "playing" /\ ~e.panicked /\ e.currentFile < NumFiles
    THEN IndexFiles(e, e.currentFile)
    ELSE e

\* killMPV: Kill on shared.mpv when there is one, then shared.mpv = nil.
killMPV(e) ==
    IF e.mpv THEN [e EXCEPT !.mpv = FALSE, !.proc = "exited"] ELSE e

\* freeEpisodeRAM(fileIdx): nothing when fileIdx >= len(m.files), else
\* m.files[fileIdx] and FreePieces on its range.
freeEpisodeRAM(e, fileIdx) ==
    IF fileIdx >= NumFiles THEN e ELSE IndexFiles(e, fileIdx)

\* updateFiles: j, k, g, G move the cursor.
EpCursor(c) ==
    /\ EpAlive
    /\ epi.screen = "files"
    /\ epi' = [epi EXCEPT !.cursor = c]
    /\ UNCHANGED notEpisode

\* updateFiles enter: beginPlayback(m.cursor, false); a: beginPlayback(0, true).
EpBeginPlayback(all) ==
    /\ EpAlive
    /\ epi.screen = "files"
    /\ LET fileIdx == IF all THEN 0 ELSE epi.cursor
       IN  epi' = viewPlaying([epi EXCEPT !.screen = "playing", !.currentFile = fileIdx,
                                          !.streamAll = all,
                                          !.totalFiles = IF all THEN NumFiles ELSE fileIdx + 1,
                                          !.pc = "index", !.idx = fileIdx,
                                          !.want = {}])
    /\ UNCHANGED notEpisode

\* cmdPlayFile(idx): f := files[idx], the priorities, the server ensured.
EpIndexFile ==
    /\ ~epi.panicked
    /\ epi.pc = "index"
    /\ epi' = [IndexFiles(epi, epi.idx) EXCEPT
                  !.pc = IF epi.idx \in FileIdx THEN "existing" ELSE @,
                  !.want = {}]
    /\ UNCHANGED notEpisode

\* cmdPlayFile: Kill on an existing shared.mpv, then player.Launch.
EpLaunch(ok) ==
    /\ ~epi.panicked
    /\ epi.pc = "existing"
    /\ epi' = [killMPV(epi) EXCEPT !.pc = IF ok THEN "store" ELSE "msg",
                                   !.proc = IF ok THEN "running" ELSE "none"]
    /\ UNCHANGED notEpisode

\* cmdPlayFile: sh.mpv = mpvInst.
EpStore ==
    /\ ~epi.panicked
    /\ epi.pc = "store"
    /\ epi' = [epi EXCEPT !.mpv = TRUE, !.pc = "wait"]
    /\ UNCHANGED notEpisode

\* The player ends by itself: the episode is over or its window was closed.
EpPlayerEnds ==
    /\ ~epi.panicked
    /\ epi.proc = "running"
    /\ epi' = [epi EXCEPT !.proc = "exited"]
    /\ UNCHANGED notEpisode

\* cmdPlayFile: mpvInst.Wait() returns, sh.mpv = nil, mpvExitedMsg returned.
EpWait ==
    /\ ~epi.panicked
    /\ epi.pc = "wait"
    /\ epi.proc = "exited"
    /\ epi' = [epi EXCEPT !.mpv = FALSE, !.pc = "msg"]
    /\ UNCHANGED notEpisode

\* updatePlaying(KeyMsg n)
EpKeyN ==
    /\ EpAlive
    /\ epi.screen = "playing"
    /\ epi.streamAll /\ epi.currentFile < epi.totalFiles - 1
    /\ epi' = viewPlaying(killMPV(epi))
    /\ UNCHANGED notEpisode

\* updatePlaying(KeyMsg p): killMPV and m.currentFile -= 2, "mpvExitedMsg will
\* increment".
EpKeyP ==
    /\ EpAlive
    /\ epi.screen = "playing"
    /\ epi.streamAll /\ epi.currentFile > 0
    /\ epi' = viewPlaying([killMPV(epi) EXCEPT
                  !.currentFile = @ - 2,
                  !.want = IF epi.proc = "running" /\ epi.idx > 0 THEN {epi.idx - 1} ELSE @])
    /\ UNCHANGED notEpisode

\* updatePlaying(mpvExitedMsg): the next episode of a stream-all session, or
\* the file list.
EpUpdateExited ==
    /\ EpAlive
    /\ epi.pc = "msg"
    /\ IF epi.streamAll /\ epi.currentFile < epi.totalFiles - 1
       THEN LET e == freeEpisodeRAM(epi, epi.currentFile)
            IN  epi' = IF e.panicked THEN e
                       ELSE viewPlaying([e EXCEPT !.currentFile = @ + 1, !.pc = "index",
                                                  !.idx = epi.currentFile + 1])
       ELSE epi' = [killMPV(epi) EXCEPT
                       !.screen = "files", !.pc = "none",
                       !.cursor = IF epi.currentFile < NumFiles THEN epi.currentFile ELSE @]
    /\ UNCHANGED notEpisode

\* updatePlaying(KeyMsg q), updateFiles(KeyMsg q): cleanup and tea.Quit.
EpKeyQ ==
    /\ EpAlive
    /\ epi' = [killMPV(epi) EXCEPT !.screen = "quit"]
    /\ UNCHANGED notEpisode

EpisodeNext ==
    \/ \E c \in FileIdx : EpCursor(c)
    \/ \E all \in BOOLEAN : EpBeginPlayback(all)
    \/ EpIndexFile
    \/ \E ok \in BOOLEAN : EpLaunch(ok)
    \/ EpStore
    \/ EpPlayerEnds
    \/ EpWait
    \/ EpKeyN
    \/ EpKeyP
    \/ EpUpdateExited
    \/ EpKeyQ

(***************************************************************************)
(* The screens before the file list: the magnet link is submitted on the   *)
(* input screen, cmdFetchMetadata runs while the loading screen shows.     *)
(***************************************************************************)
\* The file list is shown: the metadata message was taken long ago.
FetchedInit == fetch = "taken"

notFetch == <<shmpv, gor, playerVars, fileSet, prio, cacheVars, concVars, bridgeVars, sreqs,
              layout, sendVars, lockVars, episodeVars>>

\* updateInput(submitMagnetMsg), updateInput(KeyMsg enter) with a link typed:
\* the loading screen, and cmdFetchMetadata started.
SubmitMagnet ==
    /\ Running
    /\ ui.screen = "input"
    /\ fetch = "none"
    /\ ui' = [ui EXCEPT !.screen = "loading"]
    /\ fetch' = "running"
    /\ ops' = <<>>
    /\ UNCHANGED notFetch

\* cmdFetchMetadata returns metadataReadyMsg once <-t.GotInfo() is over, or
\* metadataErrMsg.
FetchReturns(ok) ==
    /\ fetch = "running"
    /\ fetch' = IF ok THEN "readyMsg" ELSE "errMsg"
    /\ UNCHANGED <<ui, ops, notFetch>>

\* Update(metadataReadyMsg) and Update(metadataErrMsg): dispatched by
\* m.screen. updateLoading shows the file list or keeps the error; the
\* handlers of the other screens have no case for either message.
UpdateMetadata ==
    /\ Running
    /\ fetch \in {"readyMsg", "errMsg"}
    /\ ops' = <<>>
    /\ IF ui.screen = "loading"
       THEN /\ ui' = IF fetch = "readyMsg" THEN [ui EXCEPT !.screen = "files"]
                     ELSE [ui EXCEPT !.err = TRUE]
            /\ fetch' = IF fetch = "readyMsg" THEN "taken" ELSE "failed"
       ELSE /\ ui' = ui
            /\ fetch' = "dropped"
    /\ UNCHANGED notFetch

\* NewModel: the input screen.
MetaInit ==
    /\ CacheInit /\ ConcInit /\ BridgeInit /\ SetInit /\ PlayerInit
    /\ SendersInit /\ LocksInit /\ EpisodeInit
    /\ ui = [screen |-> "input", prevScreen |-> "input", currentFile |-> 0,
             streamAll |-> FALSE, busy |-> FALSE, err |-> FALSE, server |-> 0]
    /\ shmpv = 0
    /\ gor = [s \in Sess |-> "idle"]
    /\ ops = <<>>
    /\ prio = [files |-> [i \in FileIdx |-> "unset"], now |-> {}, by |-> -1]
    /\ layout = DefaultLayout
    /\ fetch = "none"

MetaNext ==
    \/ SubmitMagnet
    \/ \E ok \in BOOLEAN : FetchReturns(ok)
    \/ UpdateMetadata
    \/ TuiNext

SpecMeta == MetaInit /\ [][MetaNext]_vars

Init ==
    /\ CacheInit /\ ConcInit /\ BridgeInit /\ SetInit /\ PlayerInit /\ TuiInit
    /\ SendersInit /\ LocksInit /\ FetchedInit /\ EpisodeInit

SpecPiece == Init /\ [][PieceNext]_vars

SpecCache == Init /\ [][CacheNext]_vars

SpecConc == Init /\ [][ConcNext]_vars

SpecBridge == Init /\ [][BridgeNext]_vars

SpecServe == Init /\ [][ServeNext]_vars

SpecSet == Init /\ [][SetNext]_vars

SpecPlayer == Init /\ [][PlayerNext]_vars

SpecTui == Init /\ [][TuiNext]_vars

SpecSessions == Init /\ [][SessionsNext]_vars

\* ---- One single-file playback and ctrl+c, up to the exit of the program ----

QuitNext ==
    \/ \E s \in FirstSession :
          \/ \E cursor \in FileIdx : KeyEnter(s, cursor)
          \/ CmdSetup(s)
          \/ CmdLaunched(s)
          \/ CmdWaited(s)
          \/ UpdateExited(s)
          \/ UpdatePlaylistPos(s)
          \/ OneFilePlayerSteps(s)
    \/ KeyCtrlC
    \/ CtrlCAfterKill
    \/ ProgramExits

SpecQuit == Init /\ [][QuitNext]_vars

\* ---- The package with a player that drops the connection ----

\* Playlists of one item and of two.
LinkCounts == {1, 2}

LinkNext ==
    \E s \in FirstSession :
        \/ \E n \in LinkCounts : \E start \in 0 .. (n - 1) : CallLaunch(s, n, start)
        \/ CallWait(s)
        \/ CallKill(s)
        \/ CallbackReturn(s)
        \/ PlayerSteps(s)
        \/ ConnLost(s)

SpecLink == Init /\ [][LinkNext]_vars

\* ---- The callers of sendCommand on one connected session ----

SendInit ==
    /\ CacheInit /\ ConcInit /\ BridgeInit /\ SetInit /\ TuiInit /\ SendersInit /\ LocksInit /\ FetchedInit /\ EpisodeInit
    /\ ses = [s \in Sess |-> IF s \in FirstSession THEN Connected ELSE NoSession]
    /\ windows \in BOOLEAN
    /\ sock = 1
    /\ crashed = FALSE

SendNext ==
    \E s \in FirstSession :
        \/ \E c \in Senders : SendLock(s, c) \/ SendWrite(s, c)
        \/ SendCleanup(s)
        \/ \E clean \in BOOLEAN : MpvExit(s, clean)

SpecSend == SendInit /\ [][SendNext]_vars

\* ---- Priorities over torrents of many layouts ----

\* Piece counts of a file: none, one, just below and at a twentieth's divisor,
\* and past twice the divisor.
PieceCounts == {0, 1, Twentieth - 1, Twentieth, 2 * Twentieth + 1}

RECURSIVE FirstOf(_, _)
\* BeginPieceIndex of file i when the files lie one after the other.
FirstOf(c, i) == IF i = 0 THEN 0 ELSE FirstOf(c, i - 1) + c[i - 1]

Layouts ==
    {[i \in FileIdx |-> Range(FirstOf(c, i), FirstOf(c, i) + c[i])] :
        c \in [FileIdx -> PieceCounts]}

\* A torrent of any of the layouts, on a unix host with no socket file left.
PrioInit ==
    /\ CacheInit /\ ConcInit /\ BridgeInit /\ SetInit /\ PlayerInit /\ ModelInit
    /\ SendersInit /\ LocksInit /\ FetchedInit /\ EpisodeInit
    /\ ~windows
    /\ sock = 0
    /\ layout \in Layouts

\* opts.OnPlaylistPos(p) called by the event loop of session s: the position a
\* property-change carried, whatever it is.
OnPlaylistPos(s, p) ==
    /\ Running
    /\ gor[s] = "launch"
    /\ ses[s].bpc \in {"none", "loop"}
    /\ ses' = [ses EXCEPT ![s].bpc = "cb", ![s].cbpos = p]
    /\ UNCHANGED <<sock, windows, crashed, notPlayer>>

\* Positions a message can carry: -1 (no item) up to one past the files.
Positions == -1 .. NumFiles

PrioNext ==
    \/ \E s \in FirstSession :
          \/ \E cursor \in FileIdx : KeyEnter(s, cursor)
          \/ KeyA(s)
          \/ CmdSetup(s)
          \/ \E p \in Positions : OnPlaylistPos(s, p)
          \/ UpdatePlaylistPos(s)
    \/ KeyCtrlS
    \/ KeyEsc

SpecPrio == PrioInit /\ [][PrioNext]_vars

\* ---- Position messages over a filled cache ----

EvictNext ==
    \/ \E idx \in PieceIdx : Piece(idx)
    \/ \E s \in FirstSession :
          \/ \E cursor \in FileIdx : KeyEnter(s, cursor)
          \/ KeyA(s)
          \/ CmdSetup(s)
          \/ \E p \in Positions : OnPlaylistPos(s, p)
          \/ UpdatePlaylistPos(s)

\* Files that are not piece-aligned: each shares its last piece with the next.
SharedBoundaryLayout == [i \in FileIdx |-> Range(i, i + 2)]

\* A torrent of aligned files, or one of files that share boundary pieces.
EvictInit ==
    /\ CacheInit /\ ConcInit /\ BridgeInit /\ SetInit /\ PlayerInit /\ ModelInit
    /\ SendersInit /\ LocksInit /\ FetchedInit /\ EpisodeInit
    /\ layout \in {DefaultLayout, SharedBoundaryLayout}

SpecEvict == EvictInit /\ [][EvictNext]_vars

SpecEpisode == Init /\ [][EpisodeNext]_vars

SpecLocks == Init /\ [][LocksNext]_vars

\* Go's mutex hands a lock that is free again and again to a waiter, and
\* the scheduler runs every goroutine that can take a step.
LocksFairness == \A t \in LockThreads : SF_vars(LkStep(t))

SpecLocksFair == SpecLocks /\ LocksFairness

(***************************************************************************)
(* Claims                                                                  *)
(***************************************************************************)
\* The memPiece behind the caller's handle in the next state.
ObjNext == IF hnd'.kind = "entry" THEN pieces'[hnd'.idx] ELSE det'

\* C1 as stated: a ReadAt of a piece that was never written returns no bytes and
\* end-of-data, whatever the offset and the buffer.
C1_NeverWrittenReadsNothing ==
    (ret.op = "ReadAt" /\ ~Obj(hnd).written)
        => (ret.ok /\ ret.n = 0 /\ ret.err = "EOF")

\* C1 amended: a ReadAt of a never-written piece at offset off >= 0 with a buffer
\* of k bytes never faults and returns min(k, max(0, D - off)) bytes, all zero,
\* where D is the declared length; it returns no bytes and end-of-data exactly
\* when off >= D, and end-of-data exactly when it returns fewer than k bytes or
\* off >= D.
C1_NeverWrittenReadsZeros ==
    (ret.op = "ReadAt" /\ ~Obj(hnd).written)
        => /\ ret.ok
           /\ ret.n = Min(ret.y, Max(0, PieceLen - ret.x))
           /\ \A i \in 1 .. ret.n : ret.p[i] = 0
           /\ (ret.n = 0 /\ ret.err = "EOF") <=> (ret.x >= PieceLen)
           /\ (ret.err = "EOF") <=> (ret.n < ret.y \/ ret.x >= PieceLen)

\* A never-written piece was read from its start and the read filled the buffer.
C1_Witness ==
    /\ ret.op = "ReadAt"
    /\ ~Obj(hnd).written
    /\ ret.x = 0
    /\ ret.n = PieceLen
    /\ ret.err = "nil"

\* C2: a WriteAt at offset o of n bytes with o+n beyond the buffer's length makes
\* the length exactly o+n, leaves the bytes stored outside [o, o+n) as they were,
\* and a ReadAt of [o, o+n) that follows returns exactly the written bytes.
C2_WriteGrowsAndRoundTrips ==
    [][(ret'.op = "WriteAt" /\ ret'.x + ret'.y > Len(Obj(hnd).data))
          => LET o   == ret'.x
                 n   == ret'.y
                 old == Obj(hnd).data
                 new == ObjNext.data
                 rd  == ReadAtOp(new, ReadBuf(n), o)
             IN  /\ ret'.ok /\ ret'.n = n
                 /\ Len(new) = o + n
                 /\ \A i \in 1 .. Len(old) : (i <= o \/ i > o + n) => new[i] = old[i]
                 /\ rd.n = n /\ rd.p = ret'.p /\ ~rd.fault
                 /\ rd.p = Payload(n)]_vars

\* A write behind the end of a buffer that held written bytes: the buffer ends
\* with the payload and still starts with a byte of the earlier write.
C2_Witness ==
    /\ ret.op = "WriteAt"
    /\ ret.y = MaxLen
    /\ ret.x > PieceLen
    /\ Len(Obj(hnd).data) = ret.x + ret.y
    /\ Obj(hnd).data[1] # 0

\* What a ReadAt of piece idx returns once Piece(idx) has handed out its entry:
\* the entry the map holds, or a new one.
PieceObj(idx) == IF idx \in DOMAIN pieces THEN pieces[idx] ELSE NewPiece(PieceLen)

\* C3: after FreePieces(a, b) a read of an index in [a, b) returns what a read of
\* a never-written piece returns (for every offset and buffer), the piece is not
\* complete, and a second FreePieces(a, b) changes nothing.
C3_EvictedReadsLikeNeverWritten ==
    (ret.op = "FreePieces" /\ ~piecesNil)
        => /\ \A i \in PieceIdx \cap (ret.x .. (ret.y - 1)) :
                /\ ~PieceObj(i).written
                /\ ~PieceObj(i).complete
                /\ \A k \in BufLens, off \in Offsets :
                      ReadAtOp(PieceObj(i).data, ReadBuf(k), off)
                          = ReadAtOp(MakeBytes(PieceLen), ReadBuf(k), off)
           /\ FreePiecesOp(pieces, ret.x, ret.y) = pieces

\* FreePieces has evicted a written piece that the caller still holds.
C3_Witness ==
    /\ ret.op = "FreePieces"
    /\ ret.n > 0
    /\ hnd.kind = "detached"
    /\ hnd.idx \in ret.x .. (ret.y - 1)
    /\ det.written /\ det.complete

\* C4: FreePieces(start, end) deletes exactly the entries with an index in
\* [start, end); an index of the range without an entry changes nothing, and every
\* entry outside the range keeps its buffer and its completion flag.
C4_FreePiecesFrame ==
    [][ret'.op = "FreePieces"
          => /\ DOMAIN pieces' = DOMAIN pieces \ {i \in PieceIdx : ret'.x <= i /\ i < ret'.y}
             /\ \A i \in DOMAIN pieces' : pieces'[i] = pieces[i]
             /\ ret'.ok /\ ~panicked']_vars

\* FreePieces(0, 2) found one entry of its range and none for the other index,
\* and a written, complete piece outside the range is still there.
C4_Witness ==
    /\ ret.op = "FreePieces"
    /\ ret.x = 0 /\ ret.y = 2
    /\ ret.n = 1
    /\ \E i \in DOMAIN pieces : pieces[i].written /\ pieces[i].complete

\* C5 as stated: after MemTorrent.Close every Piece and every FreePieces call on
\* the session fails.
C5_OperationsAfterCloseFail ==
    (piecesNil /\ ret.op \in {"Piece", "FreePieces"}) => ~ret.ok

\* C6: a ReadAt at an offset at or beyond the buffer's length returns 0 and
\* end-of-data, without a fault and without changing the piece; below the length
\* it copies min(len(buf), length - offset) bytes, the stored bytes from that
\* offset on, and returns their number.
C6_ReadAtContract ==
    [][ret'.op = "ReadAt"
          => LET data == Obj(hnd).data
                 off  == ret'.x
                 k    == ret'.y
             IN  /\ ret'.ok /\ ~panicked'
                 /\ pieces' = pieces /\ det' = det /\ hnd' = hnd
                 /\ Len(ret'.p) = k
                 /\ IF off >= Len(data)
                    THEN ret'.n = 0 /\ ret'.err = "EOF" /\ ret'.p = ReadBuf(k)
                    ELSE /\ ret'.n = Min(k, Len(data) - off)
                         /\ \A i \in 1 .. ret'.n : ret'.p[i] = data[off + i]
                         /\ \A i \in (ret'.n + 1) .. k : ret'.p[i] = ReadBuf(k)[i]]_vars

\* A short read of written bytes: fewer bytes than the buffer holds, from an
\* offset inside the buffer.
C6_Witness ==
    /\ ret.op = "ReadAt"
    /\ ret.x > 0
    /\ 0 < ret.n /\ ret.n < ret.y
    /\ ret.p[1] # 0
    /\ ret.err = "EOF"

\* The positions at which a goroutine holds a handle.
Holding == {"have", "rlocked", "readDone", "grow", "copy"}

\* C7: Piece returns the entry the map holds for the index, and creates one, with
\* a buffer of the declared length, only if there is none: at most one entry is
\* ever created for an index, and every goroutine that holds a handle for the
\* index holds that entry.
C7_OneEntryPerIndex ==
    /\ \A i \in ConcPieces :
          /\ created[i] <= 1
          /\ (i \in DOMAIN pieces) <=> (created[i] = 1)
          /\ (i \in DOMAIN pieces /\ ~pieces[i].written)
                => pieces[i].data = MakeBytes(PieceLen)
    /\ \A t \in Threads :
          th[t].pc \in Holding
              => (th[t].idx \in DOMAIN pieces /\ th[t].gen = created[th[t].idx])
    /\ \A t \in Threads, u \in Threads :
          (th[t].pc \in Holding /\ th[u].pc \in Holding /\ th[t].idx = th[u].idx)
              => th[t].gen = th[u].gen

\* All goroutines hold a handle for the same index, and one of them is writing.
C7_Witness ==
    /\ \A t \in Threads : th[t].pc \in Holding /\ th[t].idx = th[1].idx
    /\ \E t \in Threads : th[t].pc = "copy"
    /\ created[th[1].idx] = 1

\* C8: a ReadAt returns the buffer as a completed call left it: as it was before
\* a WriteAt on the same index began or as it is after that WriteAt finished,
\* never with a part of the write applied.
C8_ReadsAreNotTorn ==
    \A t \in Threads : th[t].pc = "readDone" => ~th[t].torn

\* A ReadAt of a written piece has just finished and a WriteAt on the same index
\* has copied a part of its payload.
C8_Witness ==
    \E t \in Threads, u \in Threads :
        /\ th[t].pc = "readDone"
        /\ th[u].pc = "copy" /\ th[u].i > 0
        /\ th[u].idx = th[t].idx
        /\ stable[th[t].idx] # MakeBytes(PieceLen)

\* C9: the readahead set for a request on a file of length L is max(8 MiB, 5% of
\* L) clamped to L, 5% of L being L/20 rounded down to whole bytes; 100 MiB gives
\* 8 MiB, 400 MiB gives 20 MiB and 4 MiB gives 4 MiB.
C9_ReadaheadWindow ==
    /\ \A c \in Conns :
          reqs[c].reader
              => LET L == Length(reqs[c].f)
                     w == reqs[c].readahead
                 IN  IF L <= 8 * MiB
                     THEN w = L                      \* clamped to L
                     ELSE IF L < 20 * (8 * MiB)
                     THEN w = 8 * MiB                \* 5% of L is below 8 MiB
                     ELSE 20 * w <= L /\ L < 20 * (w + 1)   \* w = L/20, rounded down
    /\ Readahead(100 * MiB) = 8 * MiB
    /\ Readahead(400 * MiB) = 20 * MiB
    /\ Readahead(4 * MiB) = 4 * MiB

\* A request is being served from a file of 400 MiB and 7 bytes with a readahead
\* of 20 MiB.
C9_Witness ==
    \E c \in Conns :
        /\ reqs[c].pc = "serving"
        /\ reqs[c].reader
        /\ Length(reqs[c].f) = 400 * MiB + 7
        /\ reqs[c].readahead = 20 * MiB

\* C10: a request for the stream endpoint that finds no file published is answered
\* with 503, not 404, and gets no reader; before the first publish that is every
\* such request.
C10_UnpublishedIs503 ==
    \A c \in Conns :
        /\ (reqs[c].pc \in {"serving", "done"} /\ Routed(reqs[c].path)
               /\ reqs[c].f = NoFile)
              => (reqs[c].pc = "done" /\ reqs[c].status = 503 /\ ~reqs[c].reader)
        /\ (~published /\ reqs[c].pc \in {"serving", "done"} /\ Routed(reqs[c].path))
              => (reqs[c].status = 503 /\ ~reqs[c].reader)
        /\ ~published => ~reqs[c].reader

\* Before any publish a request for the stream endpoint was answered with 503.
C10_Witness ==
    /\ ~published
    /\ \E c \in Conns :
          reqs[c].pc = "done" /\ reqs[c].path = "/stream" /\ reqs[c].status = 503

C12_RangeResponse ==
    \A c \in Conns :
        (reqs[c].pc = "done" /\ Routed(reqs[c].path) /\ reqs[c].f # NoFile)
            => LET L == Length(reqs[c].f)
                   rng == reqs[c].range
               IN  /\ (rng.kind = "closed" /\ 0 <= rng.a /\ rng.a <= rng.b /\ rng.b < L)
                        => /\ reqs[c].status = 206
                           /\ reqs[c].crange = [kind |-> "range", s |-> rng.a,
                                                 e |-> rng.b, l |-> L]
                           /\ reqs[c].sent = rng.b - rng.a + 1
                           /\ reqs[c].from = rng.a
                           /\ reqs[c].contig
                           /\ reqs[c].srcs = {reqs[c].f}
                   /\ (rng = Closed(10, 19) /\ L = 100)
                        => /\ reqs[c].sent = 10
                           /\ reqs[c].crange = [kind |-> "range", s |-> 10, e |-> 19,
                                                 l |-> 100]
                   /\ rng.kind = "none"
                        => /\ reqs[c].status = 200
                           /\ reqs[c].crange.kind = "none"
                           /\ reqs[c].sent = L
                           /\ reqs[c].from = 0
                           /\ reqs[c].contig
                           /\ reqs[c].srcs = {reqs[c].f}

\* bytes=10-19 on the file of 100 bytes has been answered with 206 and 10 bytes.
C12_Witness ==
    \E c \in Conns :
        /\ reqs[c].pc = "done"
        /\ reqs[c].f # NoFile
        /\ Length(reqs[c].f) = 100
        /\ reqs[c].range = Closed(10, 19)
        /\ reqs[c].status = 206
        /\ reqs[c].sent = 10

\* C13: a handler serves entirely from the value of s.file it read once under
\* the read lock: the reader, the readahead, the lengths in the response header
\* and every byte of the body come from that one file, also when SetFile has
\* replaced the published file while the response was being streamed; a handler
\* that read "nothing published" sends no byte of a file published later.
C13_ServesFromOneSnapshot ==
    \A c \in Conns :
        /\ (reqs[c].pc \in {"serving", "done"} /\ reqs[c].f # NoFile)
              => /\ reqs[c].srcs \subseteq {reqs[c].f}
                 /\ reqs[c].readahead = Readahead(Length(reqs[c].f))
                 /\ reqs[c].crange.kind # "none" => reqs[c].crange.l = Length(reqs[c].f)
                 /\ reqs[c].from + reqs[c].size <= Length(reqs[c].f)
                 /\ reqs[c].pc = "serving" => readers[c].f = reqs[c].f
        /\ (reqs[c].pc = "done" /\ Routed(reqs[c].path) /\ reqs[c].f = NoFile)
              => (reqs[c].status = 503 /\ reqs[c].srcs = {} /\ reqs[c].sent = 0)

\* SetFile has replaced the published file while a response was half sent.
C13_Witness ==
    \E c \in Conns :
        /\ reqs[c].pc = "serving"
        /\ reqs[c].sent > 0
        /\ reqs[c].sent < reqs[c].size
        /\ file # reqs[c].f
        /\ reqs[c].srcs = {reqs[c].f}

\* The reader of the call on connection c is the one it created, positioned
\* where its own response stands, with its own readahead.
OwnReader(c) ==
    /\ readers[c].open
    /\ readers[c].f = reqs[c].f
    /\ readers[c].off = reqs[c].from + reqs[c].sent
    /\ readers[c].readahead = Readahead(Length(reqs[c].f))

\* C14: requests in flight at the same time are independent: every request has a
\* reader of its own, a step of one request changes neither another request nor
\* another request's reader (offset, range, readahead), and every request ends
\* with the body its own file and range determine, whether the requests are on
\* the same file or on different files.
C14_RequestsAreIndependent ==
    [][/\ \A c \in Conns, d \in Conns :
            (reqs'[c] # reqs[c] /\ d # c)
                => (reqs'[d] = reqs[d] /\ readers'[d] = readers[d])
       /\ file' # file => (reqs' = reqs /\ readers' = readers)
       /\ \A c \in Conns :
            /\ reqs'[c].pc = "serving" => OwnReader(c)'
            /\ (reqs'[c].pc = "done" /\ reqs'[c].f # NoFile)
                  => /\ reqs'[c].contig
                     /\ reqs'[c].sent = reqs'[c].size
                     /\ reqs'[c].status =
                            ServeContent(Length(reqs'[c].f), reqs'[c].range).status]_vars

\* Two responses are half sent at the same time, on different files.
C14_Witness ==
    \E c \in Conns, d \in Conns :
        /\ c # d
        /\ reqs[c].pc = "serving" /\ reqs[d].pc = "serving"
        /\ reqs[c].f # reqs[d].f
        /\ reqs[c].sent > 0 /\ reqs[c].sent < reqs[c].size
        /\ reqs[d].sent > 0 /\ reqs[d].sent < reqs[d].size
        /\ reqs[c].range # reqs[d].range
\* Launch returns from its poll loop with every one of the DialAttempts dials failed.
GaveUp(s) ==
    /\ ses[s].lpc = "dial"
    /\ ses[s].li = DialAttempts
    /\ ses'[s].lpc = "returned"

IsPrefix(a, b) == Len(a) <= Len(b) /\ a = SubSeq(b, 1, Len(a))

\* The commands written to the connection, Kill's quit apart.
Written(r) == SelectSeq(r.sent, LAMBDA c : c.verb # "quit")

\* The items the channel has asked the player to append, in order.
Appended(r) ==
    LET loads == SelectSeq(r.sent, LAMBDA c : c.verb = "loadfile")
    IN  [j \in 1 .. Len(loads) |-> loads[j].arg]

\* Launch has handed a connected session of 3 URLs and start index 1 to its caller.
HandedOver31(r) ==
    /\ r.lpc = "returned"
    /\ r.lret = "ok"
    /\ r.bpc # "none"
    /\ r.n = 3
    /\ r.start = 1

\* The player executes the set-position command of session s.
ExecutesSetPos(s) ==
    /\ ses[s].proc = "running"
    /\ ses[s].inq # <<>>
    /\ Head(ses[s].inq).verb = "setpos"
    /\ ses'[s].proc = "running"
    /\ ses'[s].inq = Tail(ses[s].inq)

\* C16 as stated: a session of 3 URLs and start index 1 is handed to the caller
\* of Launch with items 0 and 2 appended, in that order, and the set-position
\* command to 1 issued.
C16_AppendedBeforeHandOver ==
    \A s \in Sess :
        HandedOver31(ses[s]) =>
            /\ Appended(ses[s]) = <<0, 2>>
            /\ Cmd("setpos", 1) \in {ses[s].sent[j] : j \in 1 .. Len(ses[s].sent)}

\* C16 amended: for a session of 3 URLs and start index 1 the player is started
\* with item 0 and the session is handed over with position 1 recorded and
\* nothing sent yet; afterwards the channel writes, in this order and up to the
\* first failing write, the appends of items 1 and 2 with their titles, the
\* title of item 0, the set-position command to 1 and the observation requests;
\* when the player executes the set-position command its playlist is items
\* 0, 1, 2 and item 1 becomes its current item.
C16_AppendsAfterHandOver ==
    /\ [](\A s \in Sess :
            ses[s].n = 3 /\ ses[s].start = 1 =>
                /\ IsPrefix(Written(ses[s]),
                            <<Cmd("loadfile", 1), Cmd("title", 1),
                              Cmd("loadfile", 2), Cmd("title", 2),
                              Cmd("title", 0), Cmd("setpos", 1),
                              Cmd("observe", 0), Cmd("observe", 0)>>)
                /\ IsPrefix(ses[s].playlist, <<0, 1, 2>>))
    /\ [][\A s \in Sess :
            ses[s].n = 3 /\ ses[s].start = 1 =>
                /\ ~HandedOver31(ses[s]) /\ HandedOver31(ses'[s]) =>
                      /\ ses'[s].sent = <<>>
                      /\ ses'[s].playlistPos = 1
                      /\ ses'[s].playlist = <<0>>
                /\ ExecutesSetPos(s) =>
                      ses[s].playlist = <<0, 1, 2>> /\ ses'[s].pos = 1]_vars

C16_Witness ==
    \E s \in Sess :
        /\ ses[s].n = 3
        /\ ses[s].start = 1
        /\ ses[s].lret = "ok"
        /\ Appended(ses[s]) = <<1, 2>>
        /\ Cmd("setpos", 1) \in {ses[s].sent[j] : j \in 1 .. Len(ses[s].sent)}
        /\ ses[s].playlist = <<0, 1, 2>>
        /\ ses[s].pos = 1
        /\ ses[s].playlistPos = 1
        /\ ses[s].bpc = "loop"

\* Kill or Wait has returned on session s.
Ended(s) == ses[s].kpc = "returned" \/ ses[s].wpc = "returned"

\* C18: once Kill or Wait has returned on a session, by whichever path (quit
\* unanswered and the process killed after the timeout, killed at once for want
\* of a connection, or exited on its own and reaped by Wait), the endpoint no
\* longer exists (neither a socket file nor a listening pipe) and the session's
\* connection is closed.
C18_EndpointGoneAfterEnd ==
    \A s \in Sess :
        Ended(s) => /\ sock = 0
                    /\ ~ses[s].ipc
                    /\ ~ses[s].conn

C18_Witness ==
    \E s \in Sess :
        /\ ~windows
        /\ ses[s].kpc = "returned"
        /\ ses[s].kconn
        /\ ses[s].timedOut
        /\ ses[s].forced

\* C19 as stated: the process is killed only after a quit command was sent and
\* the 500 ms timer fired.
C19_QuitAlwaysFirst ==
    \A s \in Sess : ses[s].killed => ses[s].quitTried /\ ses[s].timedOut

\* C19 amended: Kill on a session with a connection first sends quit and calls
\* Process.Kill only after the 500 ms timer fired before the exit was seen; Kill
\* on a session without a connection sends no quit and calls Process.Kill at
\* once; a process is force-terminated only while it is still running.
C19_QuitFirstWhenConnected ==
    \A s \in Sess :
        /\ ses[s].killed /\ ses[s].kconn => ses[s].quitTried /\ ses[s].timedOut
        /\ ses[s].killed /\ ~ses[s].kconn => ~ses[s].quitTried /\ ~ses[s].timedOut
        /\ ses[s].quitTried => ses[s].kconn
        /\ ses[s].timedOut => ses[s].killed
        /\ ses[s].forced => ses[s].killed /\ ses[s].proc = "exited"

C19_Witness ==
    \E s \in Sess :
        /\ ses[s].kpc = "returned"
        /\ ses[s].kconn
        /\ ses[s].quitTried
        /\ Cmd("quit", 0) \in {ses[s].sent[j] : j \in 1 .. Len(ses[s].sent)}
        /\ ses[s].timedOut
        /\ ses[s].forced
        /\ windows

\* The UI receives a position message that reports a move from the current
\* item i to item i + 1.
ReceivesNextItem(s) ==
    /\ ses[s].bpc = "cb"
    /\ ses'[s].bpc = "loop"
    /\ ses[s].n = NumFiles
    /\ ses[s].cbpos = ui.currentFile + 1
    /\ ses[s].cbpos < NumFiles

\* C17: every position message for a move from item i to item i + 1 makes the
\* coordinator evict item i's pieces once and re-issue the priorities for item
\* i + 1 once, in the call of Update that receives it.
C17_EvictsOncePerTransition ==
    [][\A s \in Sess :
         ReceivesNextItem(s) =>
             /\ ops' = <<Free(ui.currentFile), Prio(ui.currentFile + 1)>>
             /\ ui'.currentFile = ui.currentFile + 1]_vars

\* Some session's process runs or its control connection is open.
Live(s) == ses[s].proc = "running" \/ ses[s].conn

\* C20: at most one session is live at any time, and while Launch starts and
\* connects a session no other session is live and shared.mpv holds none.
C20_OneLiveSession ==
    /\ Cardinality({s \in Sess : Live(s)}) <= 1
    /\ \A s \in Sess :
          ses[s].lpc \in {"start", "dial"} =>
              /\ shmpv = 0
              /\ \A t \in Sess \ {s} : ~Live(t)

C20_Witness ==
    \E s, t \in Sess :
        /\ gor[s] = "done"
        /\ gor[t] = "wait"
        /\ shmpv = t
        /\ ses[t].proc = "running"
        /\ ses[t].conn

\* Normal for file idx and None for every other file.
OnlyNormal(idx) == [i \in FileIdx |-> IF i = idx THEN "normal" ELSE "none"]

\* The goroutine of cmdStartPlayback issues the start priorities of session s.
IssuesAtStart(s) == gor[s] = "setup" /\ gor'[s] = "launch"

\* The playing screen receives an in-range position message of session s.
IssuesOnPosition(s) ==
    /\ ses[s].bpc = "cb"
    /\ ses'[s].bpc # "cb"
    /\ ui.screen = "playing"
    /\ ses[s].cbpos >= 0
    /\ ses[s].cbpos < NumFiles

\* C21: each time priorities are issued, at the start of a session and on every
\* position message the playing screen handles, the file the player is playing
\* (the file behind the playlist entry at that position) is set to normal and
\* every other file to the lowest priority.
C21_PlayingItemNormal ==
    [][\A s \in Sess :
         /\ IssuesAtStart(s) =>
                prio'.files = OnlyNormal(ses[s].base + ses[s].start)
         /\ IssuesOnPosition(s) /\ ses[s].base + ses[s].cbpos < NumFiles =>
                prio'.files = OnlyNormal(ses[s].base + ses[s].cbpos)]_vars

\* The first 5% of a piece range as the specification words it.
FirstFivePercent(r) ==
    LET count == (r.end - r.first) \div 20
    IN  IF count = 0 THEN {r.first} ELSE r.first .. (r.first + count - 1)

\* C22: when priorities are issued for a file with piece range [first, end),
\* at session start or on a position message, the pieces set to Now are
\* first .. first + floor((end - first) / 20) - 1, or the one piece first when
\* that count is zero.
C22_BoostIsFirstTwentieth ==
    [][\A s \in Sess :
         /\ IssuesAtStart(s) =>
                prio'.now = FirstFivePercent(layout[ses[s].base + ses[s].start])
         /\ IssuesOnPosition(s) =>
                prio'.now = FirstFivePercent(layout[ses[s].cbpos])]_vars

\* A position message moved playback to file 1, a file of more than 40 pieces,
\* and two pieces were set to Now; file 0 before it has no pieces.
C22_Witness ==
    /\ prio.by = 1
    /\ ui.currentFile = 1
    /\ ui.streamAll
    /\ layout[1].end - layout[1].first > 2 * Twentieth
    /\ layout[0].end = layout[0].first
    /\ prio.now = {layout[1].first, layout[1].first + 1}

\* C23: every command written to the control channel carries a request_id
\* greater than that of every command written before it, the first being 1,
\* whichever callers (playlist appender, Kill, title update) send and however
\* their calls of sendCommand interleave.
C23_RequestIdsIncrease ==
    /\ \A i, j \in 1 .. Len(snd.wire) : i < j => snd.wire[i].id < snd.wire[j].id
    /\ snd.wire # <<>> => snd.wire[1].id = 1

\* All three callers have written a command, the appender before and after
\* another caller.
C23_Witness ==
    /\ \A c \in Senders : \E i \in 1 .. Len(snd.wire) : snd.wire[i].by = c
    /\ \E i, j, k \in 1 .. Len(snd.wire) :
          /\ i < j /\ j < k
          /\ snd.wire[i].by = "appender"
          /\ snd.wire[j].by # "appender"
          /\ snd.wire[k].by = "appender"

\* C24: the position callbacks of a session are made in the order the player
\* wrote the events, one callback per event read and one at a time: a callback
\* starts for the oldest unread event, no other event is read while it is in
\* progress, events the player writes queue up behind the unread ones, and the
\* playing screen takes each message's position as the current file.
C24_CallbacksInOrder ==
    [][\A s \in Sess :
         /\ ses[s].bpc # "cb" /\ ses'[s].bpc = "cb" =>
                /\ ses[s].evq # <<>>
                /\ ses'[s].cbpos = Head(ses[s].evq)
                /\ ses'[s].evq = Tail(ses[s].evq)
         /\ ses[s].bpc = "cb" /\ ses'[s].bpc = "cb" =>
                /\ ses'[s].cbpos = ses[s].cbpos
                /\ IsPrefix(ses[s].evq, ses'[s].evq)
         /\ ses[s].bpc = "cb" /\ ses'[s].bpc # "cb" =>
                /\ ses'[s].evq = ses[s].evq
                /\ IssuesOnPosition(s) => ui'.currentFile = ses[s].cbpos
         /\ ses[s].bpc # "cb" /\ ses'[s].bpc # "cb" =>
                IsPrefix(ses[s].evq, ses'[s].evq) \/ ses'[s].evq = <<>>]_vars

\* The player wrote the events for item 0 and then item 1; the callback for
\* item 0 is in progress while the event for item 1 waits.
C24_Witness ==
    \E s \in Sess :
        /\ ses[s].bpc = "cb"
        /\ ses[s].cbpos = 0
        /\ ses[s].evq # <<>>
        /\ Head(ses[s].evq) = 1
        /\ ui.screen = "playing"

\* C25: once the player has dropped the control connection of a session, every
\* sendCommand returns an error and nothing more is written; the reader reads
\* no event the player wrote after the loss and starts no callback once it has
\* drained what it had; the process is ended by force only inside a
\* call of Kill; and Wait returns only when the process has exited.
C25_LossKeepsPlayerRunning ==
    /\ [](\A s \in Sess : ses[s].lost => sendError(ses[s]) # "nil")
    /\ [][\A s \in Sess :
            ses[s].lost =>
                /\ ses'[s].sent = ses[s].sent
                /\ Len(ses'[s].evq) <= Len(ses[s].evq)
                /\ ses[s].evq = <<>> /\ ses[s].bpc # "cb" => ses'[s].bpc # "cb"
                /\ ses'[s].forced /\ ~ses[s].forced =>
                       ses[s].kpc \in {"select", "nokill"}
                /\ ses[s].wpc = "waiting" /\ ses'[s].wpc # "waiting" =>
                       ses[s].proc = "exited"]_vars

\* The connection is lost, the reader has ended, and the player still runs with
\* Wait blocked on it; nobody called Kill.
C25_Witness ==
    \E s \in Sess :
        /\ ses[s].lost
        /\ ses[s].proc = "running"
        /\ ses[s].bpc = "ended"
        /\ ses[s].wpc = "waiting"
        /\ ses[s].kpc = "idle"
        /\ ses[s].sent # <<>>

\* C26: when the player binary is not found, Launch returns the error without
\* starting a process or touching the endpoint; the session never gets a
\* process afterwards (no retry), a playback starts only by a key on the file
\* list, and the error is set for display when the message brings the UI back
\* to the file list.
C26_NotFoundShownNotRetried ==
    [][\A s \in Sess :
         /\ ses[s].lpc = "start" /\ ses'[s].lret = "notfound" =>
                /\ ses'[s].lpc = "returned"
                /\ ses'[s].proc = "none"
                /\ ~ses'[s].conn
                /\ sock' = sock
         /\ ses[s].lret = "notfound" =>
                /\ ses'[s].lpc = "returned"
                /\ ses'[s].proc = "none"
         /\ gor[s] = "idle" /\ gor'[s] # "idle" =>
                ui.screen = "files" /\ ui'.screen = "playing"
         /\ /\ gor[s] = "msg" /\ gor'[s] = "done"
            /\ ses[s].lret = "notfound"
            /\ ui'.screen = "files"
            => ui'.err]_vars

\* The UI is back on the file list with the error set, and the socket file a
\* former run left behind is still there: the launch stopped before the
\* endpoint was cleaned.
C26_Witness ==
    \E s \in Sess :
        /\ gor[s] = "done"
        /\ ui.screen = "files"
        /\ ui.err
        /\ ~windows
        /\ sock = MaxLaunch + 1
        /\ ses[s].proc = "none"

\* C27: when the end of a session's player is reported to the UI (the
\* mpvExitedMsg is received), the application keeps running and the UI is on
\* the file list, or on the settings screen with the file list to return to,
\* whichever screen was showing.
C27_ExitReturnsToFiles ==
    [][\A s \in Sess :
         gor[s] = "msg" /\ gor'[s] = "done" =>
             /\ ~crashed'
             /\ \/ ui'.screen = "files"
                \/ ui'.screen = "config" /\ ui'.prevScreen = "files"]_vars

\* The UI thread is inside cleanupPlayback: it holds shared.mu until Kill returns.
SharedMuHeld == ui.busy

\* Kill of session s waits in its select: for the process to exit, or 500 ms.
KillWaits(s) == ses[s].kpc = "select"

\* C28: no thread holds a lock while it is in a blocking call: here, the UI
\* thread does not hold the shared session lock while the Kill it called waits
\* for the player to exit or for the kill timeout.
C28_NoLockAcrossBlocking ==
    \A s \in Sess : ~(SharedMuHeld /\ shmpv = s /\ KillWaits(s))

\* The observe_property requests written to the connection of a session.
Observes(r) == {i \in 1 .. Len(r.sent) : r.sent[i].verb = "observe"}

\* C29: a session issues one request to observe playlist-pos, never a second,
\* in the single-item path and in the multi-item path; in the multi-item path
\* every append and the set-position command are written before it.
C29_ObservesOnce ==
    \A s \in Sess :
        /\ Cardinality(Observes(ses[s])) <= 1
        /\ \A i \in Observes(ses[s]) : \A j \in 1 .. Len(ses[s].sent) :
              ses[s].sent[j].verb \in {"loadfile", "setpos"} => j < i

\* The pieces of the files from .. to - 1.
PiecesOf(lay, from, to) ==
    UNION {lay[i].first .. (lay[i].end - 1) : i \in from .. (to - 1)}

\* The playing screen receives a position message of session s.
ReceivesPosition(s) ==
    /\ ses[s].bpc = "cb"
    /\ ses'[s].bpc # "cb"
    /\ ui.screen = "playing"

\* C30: on a position message from oldPos to an in-range newPos the cache loses
\* exactly the pieces of the files oldPos .. newPos - 1 when newPos > oldPos and
\* nothing when newPos <= oldPos; a position outside [0, number of files)
\* leaves the current file, the priorities and the cache as they are.
C30_EvictsFilesLeftBehind ==
    [][\A s \in Sess :
         ReceivesPosition(s) =>
             LET oldPos == ui.currentFile
                 newPos == ses[s].cbpos
             IN  IF newPos >= 0 /\ newPos < NumFiles
                 THEN /\ ui'.currentFile = newPos
                      /\ DOMAIN pieces' = DOMAIN pieces \ PiecesOf(layout, oldPos, newPos)
                      /\ \A i \in DOMAIN pieces' : pieces'[i] = pieces[i]
                      /\ newPos <= oldPos => pieces' = pieces
                 ELSE /\ ui'.currentFile = ui.currentFile
                      /\ prio' = prio
                      /\ pieces' = pieces]_vars

\* A message moved playback from file 0 to the last file and the cache lost
\* the pieces of the files between: the caller's handle is to an evicted piece
\* of file 1.
C30_Witness ==
    /\ ui.currentFile = NumFiles - 1
    /\ ui.streamAll
    /\ prio.by = NumFiles - 1
    /\ hnd = Detached(layout[1].first)
    /\ DOMAIN pieces \cap PiecesOf(layout, 0, NumFiles - 1) = {}

\* The playback command of session s finishes its preparation: from here it
\* calls player.Launch.
Prepares(s) == ses[s].lpc # "start" /\ ses'[s].lpc = "start"

\* Launch starts the player process of session s.
Spawns(s) == ses[s].proc = "none" /\ ses'[s].proc = "running"

\* C31: the player of a session is spawned only by a playback command that has
\* finished its preparation, and the preparation leaves a bridge serving with
\* the file set published on it, the URLs built from that bridge, the start
\* file at normal priority and its first 5% at immediate priority; when the
\* player is spawned, its URLs are those of the bridge then serving.
C31_SpawnAfterPublishAndPriorities ==
    [][\A s \in Sess :
         /\ Prepares(s) =>
                /\ ui'.server # 0
                /\ ses'[s].urlsrv = ui'.server
                /\ fileSet' = [k \in 1 .. NumFiles |-> k]
                /\ prio'.files = OnlyNormal(ses[s].base + ses[s].start)
                /\ prio'.now = FirstFivePercent(layout[ses[s].base + ses[s].start])
         /\ Spawns(s) =>
                /\ ses[s].lpc = "start"
                /\ gor[s] = "launch"
                /\ ui.server # 0
                /\ ses[s].urlsrv = ui.server]_vars

\* The file playlist entry p of session s was built from.
FileOfEntry(s, p) == ses[s].base + p

\* C32: during playback Model.currentFile is the index of the file the player
\* plays: a playback starts with the file it launches the player on, and a
\* position message with value p makes the file that playlist entry p was
\* built from the current file and the one file at normal priority.
C32_CurrentFileIsPlayedFile ==
    [][\A s \in Sess :
         /\ IssuesAtStart(s) => ui.currentFile = FileOfEntry(s, ses[s].start)
         /\ IssuesOnPosition(s) /\ ses[s].cbpos < ses[s].n =>
                /\ ui'.currentFile = FileOfEntry(s, ses[s].cbpos)
                /\ prio'.files = OnlyNormal(FileOfEntry(s, ses[s].cbpos))]_vars

\* C33: when the application has terminated after the user quit, no player
\* process spawned by a playback command is still running.
C33_NoPlayerLeftAtExit ==
    ui.screen = "quit" => \A s \in Sess : ses[s].proc # "running"

\* C34: when a position message moves playback forward to file j, no cache
\* entry of a piece in file j's own range [Begin_j, End_j) is removed, also
\* when the files left behind share a boundary piece with file j.
C34_KeepsPiecesOfNewItem ==
    [][\A s \in Sess :
         /\ ReceivesPosition(s)
         /\ ses[s].cbpos > ui.currentFile
         /\ ses[s].cbpos < NumFiles
         => \A i \in DOMAIN pieces :
               /\ i >= layout[ses[s].cbpos].first
               /\ i < layout[ses[s].cbpos].end
               => i \in DOMAIN pieces']_vars

\* The pieces of a range [first, end).
InRange(r) == r.first .. (r.end - 1)

\* C35: whenever priorities are issued for a file, at session start or on a
\* position message, every piece set to Now lies in that file's own piece
\* range [first, end), whatever the size of the range.
C35_BoostInsideRange ==
    [][\A s \in Sess :
         /\ IssuesAtStart(s) =>
                prio'.now \subseteq InRange(layout[ses[s].base + ses[s].start])
         /\ IssuesOnPosition(s) =>
                prio'.now \subseteq InRange(layout[ses[s].cbpos])]_vars

\* A thread is inside Lock() of one of the three locks.
Waiting(t) == WantsSh(t) \/ WantsMu(t) \/ WantsPos(t)

\* C36: every thread that calls Lock() of the shared session lock, of the
\* control channel's send lock or of the position lock eventually leaves the
\* call, which it does with the lock granted, whatever the interleaving of the
\* UI update thread, the command goroutine, the event reader with its
\* callback, and Kill, Wait and cleanup.
C36_EveryLockGranted == \A t \in LockThreads : Waiting(t) ~> ~Waiting(t)

\* The callback of the event reader waits for shared.mu, which the UI update
\* thread holds while Kill waits for the player.
C36_Witness ==
    /\ WantsSh(EventReader)
    /\ lk.sh = UiThread
    /\ lk.pc[UiThread] = "select"

\* C37: the handle in use for a piece index refers to the entry the piece map
\* holds for that index, also after a FreePieces call that covers the index:
\* what a WriteAt through the handle stored is what the map's entry for the
\* index holds, so that a read through any other handle of the index sees it.
C37_HandleIsTheMapEntry ==
    [][(ret'.op = "WriteAt" /\ ret'.ok /\ ~piecesNil) =>
          /\ hnd.kind = "entry"
          /\ hnd.idx \in DOMAIN pieces'
          /\ SubSeq(pieces'[hnd.idx].data, ret'.x + 1, ret'.x + ret'.n) = ret'.p]_vars

\* C38: when the metadata-ready message is delivered, the file list is what
\* the user gets: it is the screen shown, or the screen the settings screen
\* returns to; the message is not lost because the settings screen is open.
C38_MetadataReadyShowsFiles ==
    [][(fetch = "readyMsg" /\ fetch' # "readyMsg") =>
          \/ ui'.screen = "files"
          \/ ui'.screen = "config" /\ ui'.prevScreen = "files"]_vars

\* C39: with one player per episode, the episode started after p was pressed
\* while episode k > 0 played is episode k-1, and no index outside
\* [0, number of files) is applied to the file list, be it to play an episode,
\* to show it or to free its pieces.
C39_PreviousEpisodeInRange ==
    /\ ~epi.panicked
    /\ epi.used \in FileIdx
    /\ epi.pc = "index" => epi.want \subseteq {epi.idx}


====
